---- MODULE Spec2Model ----
(***************************************************************************)
(* A model of lbex, the external L4 load-balancer controller: the three    *)
(* informer/work-queue pipelines (services, endpoints, nodes), the         *)
(* topology resolver, and the NGINX stream configurator with its           *)
(* cross-index (nodes, serviceUpstreamNodes, serviceUpstreamTarget) and    *)
(* the files it keeps in conf.d.                                           *)
(*                                                                         *)
(* Names, namespaces and keys are sequences of one-character strings, so   *)
(* that building a key (namespace + "/" + name) and turning it into a      *)
(* configuration name (strings.Replace(key, "/", "-", -1)) are computed    *)
(* character by character.                                                 *)
(***************************************************************************)
EXTENDS Integers, Sequences, FiniteSets, TLC

VARIABLES
    servicesStore,          \* informer cache: service key -> v1.Service
    endpointStore,          \* informer cache: endpoints key -> v1.Endpoints
    nodesStore,             \* informer cache: node name -> v1.Node
    wq,                     \* the three work queues: queue, dirty, processing, shuttingDown
    wpc,                    \* position of each queue's worker: "get", "sync", "exited"
    wkey,                   \* the key each worker holds between Get and Done
    wskip,                  \* what the sync function's IsShuttingDown check saw
    wobj,                   \* what the sync function's GetByKey returned, << >> before it is called
    late,                   \* observer: the key in hand was taken after the queue was shut down
    shutdownCall,           \* TaskQueue.Shutdown caller: "none", "waiting", "returned"
    stopCh,                 \* lbExController.stopCh: "open" or "closed"
    workerDone,             \* TaskQueue.workerDone of each queue: "open" or "closed"
    nodes,                  \* configurator: node name -> Node
    serviceUpstreamNodes,   \* configurator: service key -> nodes of its upstream
    serviceUpstreamTarget,  \* configurator: service key -> targets of its upstream
    files,                  \* conf.d: file name -> rendered StreamNginxConfig
    reloads,                \* Reload calls made by the most recent reconcile
    cmds,                   \* the nginx commands the most recent reconcile ran, with their outcome
    proxy,                  \* the configuration files the running nginx has loaded
    crashed,                \* the controller process has terminated (glog.Fatalf)
    lastOp,                 \* what the most recent reconcile did (observer)
    hist,                   \* the previous AddOrUpdateService, while nothing changed since (observer)
    burst,                  \* enqueues of the key in flight accepted since its Get (observer)
    nevents,                \* number of watch events delivered so far
    limit,                  \* number of watch events the behaviour may deliver
    faults,                 \* whether file writes and nginx commands may fail in this behaviour
    lbexService,            \* lbExController.service: the --service-name flag, << >> when not set
    rejected,               \* the files in conf.d whose content the proxy's validator rejects
    cfgType,                \* NginxController.cfgType: LocalCfg or StreamCfg
    lock,                   \* Configurator.lock: "free" or the goroutine that holds it
    cpc,                    \* position of each goroutine inside a Configurator call
    pin,                    \* input of the pure-function specifications
    pout                    \* result of the pure-function specifications

vars == << servicesStore, endpointStore, nodesStore, wq, wpc, wkey, wskip, wobj, late,
           shutdownCall, stopCh, workerDone, nodes, serviceUpstreamNodes, serviceUpstreamTarget,
           files, reloads, cmds, proxy, crashed, lastOp, hist, burst, nevents, limit,
           faults, lbexService, rejected, cfgType, lock, cpc, pin, pout >>

storeVars == << servicesStore, endpointStore, nodesStore >>
cfgVars   == << nodes, serviceUpstreamNodes, serviceUpstreamTarget, files, reloads,
                cmds, proxy, crashed >>
pureVars  == << pin, pout >>
lockVars  == << lock, cpc >>

-----------------------------------------------------------------------------
(* Bounds of the model.                                                    *)

MaxEvents         == 4   \* watch events delivered in one behaviour of Spec
MaxNodeEvents     == 6   \* watch events delivered in one behaviour of SpecNodes
MaxShutdownEvents == 2   \* watch events delivered in one behaviour of SpecShutdown
MaxFaultEvents    == 3   \* watch events delivered in one behaviour of SpecFaults
MaxSystemEvents   == 4   \* watch events delivered in one behaviour of SpecSystem
MaxUpdateEvents   == 4   \* watch events delivered in one behaviour of SpecUpdates
MaxNamedEvents    == 4   \* watch events delivered in one behaviour of SpecNamed
MaxTaskEvents     == 3   \* Enqueue calls made in one behaviour of SpecTaskQueue
MaxEndpointEvents == 4   \* watch events delivered in one behaviour of SpecEndpoints
MaxOrderEvents    == 5   \* watch events delivered in one behaviour of SpecOrder
MaxSubsets        == 2   \* subsets of the endpoints object in SpecResolve
MaxRunEvents      == 2   \* watch events delivered in one behaviour of SpecRun
MaxValidateEvents == 5   \* watch events delivered in one behaviour of SpecValidate
MaxLocalEvents == 4      \* watch events delivered in one behaviour of SpecLocal

-----------------------------------------------------------------------------
(* Maps (Go map / cache.Store) as functions with a finite domain.          *)

EmptyMap == << >>

Put(m, k, v) == [x \in (DOMAIN m) \cup {k} |-> IF x = k THEN v ELSE m[x]]

Del(m, k) == [x \in (DOMAIN m) \ {k} |-> m[x]]

Has(m, k) == k \in DOMAIN m

-----------------------------------------------------------------------------
(* Character-level string functions.                                       *)

\* strings.Replace(s, old, new, -1) for one-character old and new
Replace(s, old, new) == [i \in 1..Len(s) |-> IF s[i] = old THEN new ELSE s[i]]

\* strings.HasPrefix
HasPrefix(s, prefix) ==
    /\ Len(s) >= Len(prefix)
    /\ SubSeq(s, 1, Len(prefix)) = prefix

\* the Go string a character sequence stands for
RECURSIVE Str(_)
Str(s) == IF s = << >> THEN "" ELSE s[1] \o Str(Tail(s))

Digits == << "0", "1", "2", "3", "4", "5", "6", "7", "8", "9" >>

\* strconv.Itoa for a non-negative int, as characters
RECURSIVE ItoaSeq(_)
ItoaSeq(n) ==
    IF n < 10 THEN << Digits[n + 1] >>
    ELSE Append(ItoaSeq(n \div 10), Digits[(n % 10) + 1])

Itoa(n) == Str(ItoaSeq(n))

\* byte values of the characters that occur in names and rule names
CharCode ==
    [c \in {"-", "/", "0", "1", "2", "3", "4", "5", "6", "7", "8", "9", ":",
            "a", "b", "c", "d", "e", "k", "m", "n", "p", "s", "t", "u", "v", "y"} |->
        CASE c = "-" -> 45 [] c = "/" -> 47
          [] c = "0" -> 48 [] c = "1" -> 49 [] c = "2" -> 50 [] c = "3" -> 51
          [] c = "4" -> 52 [] c = "5" -> 53 [] c = "6" -> 54 [] c = "7" -> 55
          [] c = "8" -> 56 [] c = "9" -> 57 [] c = ":" -> 58
          [] c = "a" -> 97 [] c = "b" -> 98 [] c = "c" -> 99 [] c = "d" -> 100
          [] c = "e" -> 101 [] c = "k" -> 107 [] c = "m" -> 109 [] c = "n" -> 110
          [] c = "p" -> 112 [] c = "s" -> 115 [] c = "t" -> 116 [] c = "u" -> 117
          [] c = "v" -> 118 [] c = "y" -> 121]

\* Go's s < t on strings: byte-wise lexicographic order
RECURSIVE StrLess(_, _)
StrLess(s, t) ==
    IF t = << >> THEN FALSE
    ELSE IF s = << >> THEN TRUE
    ELSE IF s[1] # t[1] THEN CharCode[s[1]] < CharCode[t[1]]
    ELSE StrLess(Tail(s), Tail(t))

-----------------------------------------------------------------------------
(* Keys.                                                                   *)

\* cache.DeletionHandlingMetaNamespaceKeyFunc: namespace/name, or name alone
\* for an object without a namespace (nodes)
keyFunc(obj) ==
    IF obj.Namespace = << >> THEN obj.Name
    ELSE obj.Namespace \o << "/" >> \o obj.Name

KubeSystemPrefix == << "k", "u", "b", "e", "-", "s", "y", "s", "t", "e", "m", "/" >>

\* no object is dropped
filterObjectNever(obj) == FALSE

\* filterObject: true if the object is to be dropped
filterObject(obj) == HasPrefix(keyFunc(obj), KubeSystemPrefix)

\* filterNode: true only on a type conversion failure; the nodes store holds v1.Node only
filterNode(obj) == FALSE

-----------------------------------------------------------------------------
(* Annotations (package annotations).                                      *)

LBEXClassKey        == "kubernetes.io/loadbalancer-class"
LBEXClassKeyValue   == "loadbalancer-lbex"
LBEXAlgorithmKey    == "loadbalancer.lbex/algorithm"
LBEXMethodKey       == "loadbalancer.lbex/method"
LBEXHostKey         == "loadbalancer.lbex/host"
LBEXResolverKey     == "loadbalancer.lbex/resolver"
LBEXUpstreamType    == "loadbalancer.lbex/upstream-type"
LBEXNodeAddressType == "loadbalancer.lbex/node-address-type"
LBEXNodeSet         == "loadbalancer.lbex/node-set"
LBEXPortAnnotationBase == "loadbalancer-port.lbex/"
LBEXIpPassthrough   == "loadbalancer.lbex/ip-passthrough"

\* checkAnnotation: "nil", "missing" (ErrMissingAnnotations) or "invalidName"
checkAnnotation(name, svc) ==
    IF name = "" THEN "invalidName"
    ELSE IF DOMAIN svc.Annotations = {} THEN "missing"
    ELSE "nil"

\* serviceAnnotations.parseString
parseString(as, name) ==
    IF name \in DOMAIN as THEN [val |-> as[name], err |-> "nil"]
    ELSE [val |-> "", err |-> "missing"]

GetStringAnnotation(name, svc) ==
    LET err == checkAnnotation(name, svc)
    IN  IF err # "nil" THEN [val |-> "", err |-> err]
        ELSE parseString(svc.Annotations, name)

IsMissingAnnotations(e) == e = "missing"

\* returns the value and the "present" flag as the code computes them
GetOptionalStringAnnotation(name, svc) ==
    LET r == GetStringAnnotation(name, svc)
    IN  IF r.err # "nil" /\ ~IsMissingAnnotations(r.err)
        THEN [val |-> "", ok |-> FALSE]
        ELSE [val |-> r.val, ok |-> TRUE]

\* the integers whose decimal form occurs as an annotation value
AtoiRange == {80, 123, 8080, 9000}

\* strconv.Atoi on the values of the model: the inverse of Itoa where there is one
Atoi(s) ==
    IF \E n \in AtoiRange : Itoa(n) = s
    THEN [val |-> CHOOSE n \in AtoiRange : Itoa(n) = s, err |-> "nil"]
    ELSE [val |-> 0, err |-> "invalid"]

\* serviceAnnotations.parseInt
parseInt(as, name) ==
    IF name \in DOMAIN as THEN Atoi(as[name])
    ELSE [val |-> 0, err |-> "missing"]

GetIntAnnotation(name, svc) ==
    LET err == checkAnnotation(name, svc)
    IN  IF err # "nil" THEN [val |-> 0, err |-> err]
        ELSE parseInt(svc.Annotations, name)

GetOptionalIntAnnotation(name, svc) ==
    LET r == GetIntAnnotation(name, svc)
    IN  IF r.err # "nil" /\ ~IsMissingAnnotations(r.err)
        THEN [val |-> 0, ok |-> FALSE]
        ELSE [val |-> r.val, ok |-> TRUE]

\* strconv.ParseBool
ParseBool(s) ==
    IF s \in {"1", "t", "T", "TRUE", "true", "True"} THEN [val |-> TRUE, err |-> "nil"]
    ELSE IF s \in {"0", "f", "F", "FALSE", "false", "False"} THEN [val |-> FALSE, err |-> "nil"]
    ELSE [val |-> FALSE, err |-> "invalid"]

\* serviceAnnotations.parseBool
parseBool(as, name) ==
    IF name \in DOMAIN as THEN ParseBool(as[name])
    ELSE [val |-> FALSE, err |-> "missing"]

GetBoolAnnotation(name, svc) ==
    LET err == checkAnnotation(name, svc)
    IN  IF err # "nil" THEN [val |-> FALSE, err |-> err]
        ELSE parseBool(svc.Annotations, name)

GetOptionalBoolAnnotation(name, svc) ==
    LET r == GetBoolAnnotation(name, svc)
    IN  IF r.err # "nil" /\ ~IsMissingAnnotations(r.err)
        THEN [val |-> FALSE, ok |-> FALSE]
        ELSE [val |-> r.val, ok |-> TRUE]

\* annotations.IsValid
IsValid(svc) == GetOptionalStringAnnotation(LBEXClassKey, svc).val = LBEXClassKeyValue

-----------------------------------------------------------------------------
(* Service adapters (service.go).                                          *)

noneString == "none"

\* strings.ToLower on the cluster IP values of the model
ToLower(s) ==
    IF s \in {"None", "NONE", "none"} THEN "none" ELSE s

\* strings.EqualFold
EqualFold(s, t) == ToLower(s) = ToLower(t)

ServiceTypeLoadBalancer(svc) == svc.Type = "LoadBalancer"
ServiceTypeNodePort(svc)     == svc.Type = "NodePort"
ServiceTypeClusterIP(svc)    == svc.Type = "ClusterIP"

\* the sentinel compared byte for byte
ServiceTypeHeadlessExact(svc) == svc.ClusterIP = noneString

ServiceTypeHeadless(svc) == EqualFold(svc.ClusterIP, noneString)

IsValidServiceType(svc) ==
    /\ ~ServiceTypeHeadless(svc)
    /\ \/ ServiceTypeNodePort(svc)
       \/ ServiceTypeClusterIP(svc)
       \/ ServiceTypeLoadBalancer(svc)

\* ValidateServiceObjectType: the services store holds v1.Service only
ValidateServiceObjectType(svc) == "nil"

ValidateServiceObject(svc) ==
    IF ValidateServiceObjectType(svc) # "nil" THEN FALSE
    ELSE IF ~IsValidServiceType(svc) THEN FALSE
    ELSE IF ~IsValid(svc) THEN FALSE
    ELSE TRUE

\* intstr.IntOrString.IntValue: the int, or Atoi of the string (0 on error)
IntValue(tp) == IF tp.Type = "Int" THEN tp.IntVal ELSE Atoi(tp.StrVal).val

GetServicePortTargetPortInt(servicePort) == IntValue(servicePort.TargetPort)

\* GetServiceNameForLBRule, as characters
GetServiceNameForLBRule(serviceName, servicePort) ==
    IF servicePort = 80 THEN serviceName
    ELSE serviceName \o << ":" >> \o ItoaSeq(servicePort)

-----------------------------------------------------------------------------
(* Node adapters.                                                          *)

\* GetNodeAddress: the last address of each type wins
RECURSIVE GetNodeAddressFrom(_, _)
GetNodeAddressFrom(addrs, acc) ==
    IF addrs = << >> THEN acc
    ELSE LET a == Head(addrs)
             next == CASE a.Type = "Hostname"   -> [acc EXCEPT !.Hostname = a.Address]
                       [] a.Type = "ExternalIP" -> [acc EXCEPT !.ExternalIP = a.Address]
                       [] a.Type = "InternalIP" -> [acc EXCEPT !.InternalIP = a.Address]
                       [] OTHER -> acc
         IN  GetNodeAddressFrom(Tail(addrs), next)

GetNodeAddress(node) ==
    GetNodeAddressFrom(node.Addresses, [Hostname |-> "", ExternalIP |-> "", InternalIP |-> ""])

IsNodeScheduleable(node) == node.Unschedulable = FALSE

-----------------------------------------------------------------------------
(* Topology resolver (controller).                                         *)

\* the service-name flag: empty, the controller serves all services
ServiceNameFlag == lbexService

\* the concatenation of the sequences ss[i], ss[i+1], ...
RECURSIVE FlattenFrom(_, _)
FlattenFrom(ss, i) == IF i > Len(ss) THEN << >> ELSE ss[i] \o FlattenFrom(ss, i + 1)

Flatten(ss) == FlattenFrom(ss, 1)

\* getServiceEndpoints: the endpoints object with the service's name and namespace
getServiceEndpoints(eStore, service) ==
    IF Has(eStore, keyFunc(service))
    THEN [endpoints |-> eStore[keyFunc(service)], err |-> "nil"]
    ELSE [endpoints |-> [Namespace |-> << >>, Name |-> << >>, Subsets |-> << >>],
          err |-> "notFound"]

\* the target port an endpoint port stands for, 0 if it is not the service port's target
targetPortOf(servicePort, epPort) ==
    IF servicePort.TargetPort.Type = "Int"
    THEN IF epPort.Port = GetServicePortTargetPortInt(servicePort)
         THEN GetServicePortTargetPortInt(servicePort) ELSE 0
    ELSE IF epPort.Name = servicePort.TargetPort.StrVal THEN epPort.Port ELSE 0

\* getEndpoints: subsets x ports x addresses, in the order of the endpoints object
getEndpoints(eStore, service, servicePort) ==
    LET se == getServiceEndpoints(eStore, service)
        ofPort(subset, epPort) ==
            LET targetPort == targetPortOf(servicePort, epPort)
            IN  IF targetPort = 0 THEN << >>
                ELSE [i \in 1..Len(subset.Addresses) |->
                        [ServicePort |-> servicePort.Port,
                         NodeIP      |-> "",
                         NodeName    |-> subset.Addresses[i].NodeName,
                         NodePort    |-> servicePort.NodePort,
                         PortName    |-> epPort.Name,
                         PodIP       |-> subset.Addresses[i].IP,
                         PodPort     |-> targetPort,
                         Protocol    |-> epPort.Protocol]]
        ofSubset(subset) ==
            Flatten([j \in 1..Len(subset.Ports) |-> ofPort(subset, subset.Ports[j])])
    IN  IF se.err # "nil" THEN << >>
        ELSE Flatten([i \in 1..Len(se.endpoints.Subsets) |-> ofSubset(se.endpoints.Subsets[i])])

\* a nil *string: the NodeName of an endpoint address that names no node
NilNodeName == << "nil" >>

\* getEndpoints reaches *epAddress.NodeName with a nil pointer, and Go panics
getEndpointsPanics(eStore, service, servicePort) ==
    LET se == getServiceEndpoints(eStore, service)
    IN  /\ se.err = "nil"
        /\ \E i \in 1..Len(se.endpoints.Subsets) :
              /\ \E j \in 1..Len(se.endpoints.Subsets[i].Ports) :
                    targetPortOf(servicePort, se.endpoints.Subsets[i].Ports[j]) # 0
              /\ \E k \in 1..Len(se.endpoints.Subsets[i].Addresses) :
                    se.endpoints.Subsets[i].Addresses[k].NodeName = NilNodeName

\* insertion of x into the sorted sequence s behind every element not greater than it
RECURSIVE InsertByName(_, _)
InsertByName(s, x) ==
    IF s = << >> THEN << x >>
    ELSE IF StrLess(x.Name, s[Len(s)].Name)
         THEN Append(InsertByName(SubSeq(s, 1, Len(s) - 1), x), s[Len(s)])
         ELSE Append(s, x)

\* sort.Sort(serviceByName(...)): insertion sort on slices this short
RECURSIVE SortByName(_)
SortByName(s) ==
    IF s = << >> THEN << >>
    ELSE InsertByName(SortByName(SubSeq(s, 1, Len(s) - 1)), s[Len(s)])

\* getServiceNetworkTopo: one Service entry per service port that has endpoints
getServiceNetworkTopo(sStore, eStore, key) ==
    IF ~Has(sStore, key) THEN << >>
    ELSE IF ~ValidateServiceObject(sStore[key]) THEN << >>
    ELSE IF ServiceNameFlag # << >> /\ ServiceNameFlag # sStore[key].Name THEN << >>
    ELSE LET service == sStore[key]
             host    == GetOptionalStringAnnotation(LBEXHostKey, service).val
             ofPort(servicePort) ==
                 LET endpoints == getEndpoints(eStore, service, servicePort)
                 IN  IF endpoints = << >> THEN << >>
                     ELSE << [Name         |-> GetServiceNameForLBRule(service.Name, servicePort.Port),
                              Endpoints    |-> endpoints,
                              Host         |-> host,
                              BackendPort  |-> GetServicePortTargetPortInt(servicePort),
                              FrontendPort |-> servicePort.Port] >>
         IN  SortByName(Flatten([i \in 1..Len(service.Ports) |-> ofPort(service.Ports[i])]))

-----------------------------------------------------------------------------
(* Service specification values (package nginx).                           *)

RoundRobin       == "round_robin"
LeastConnections == "least_conn"
LowestLatency    == "least_time"
SupportedAlgorithms == {RoundRobin, LeastConnections, LowestLatency}
DefaultAlgorithm == RoundRobin

Connect == "connect"
SupportedMethods == {Connect, "first_byte", "last_byte", "connect inflight",
                     "first_byte inflight", "last_byte inflight"}
DefaultMethod == Connect

HostNode  == "node"
Pod       == "pod"
ClusterIP == "cluster-ip"
UpstreamTypes == {HostNode, Pod, ClusterIP}
DefaultUpstreamType == HostNode

Host == "host"
All  == "all"
NodeSelectionSets == {Host, All}
DefaultNodeSet == Host

Internal == "internal"
External == "external"
NodeAddressType == {Internal, External}
DefaultNodeAddressType == Internal

ValidateAlgorithmAny(a)     == a
ValidateAlgorithm(a)        == IF a \in SupportedAlgorithms THEN a ELSE DefaultAlgorithm
ValidateMethod(m)           == IF m \in SupportedMethods THEN m ELSE DefaultMethod
ValidateUpstreamType(ups)   == IF ups \in UpstreamTypes THEN ups ELSE DefaultUpstreamType
ValidateNodeAddressType(at) == IF at \in NodeAddressType THEN at ELSE DefaultNodeAddressType
ValidateNodeSet(set)        == IF set \in NodeSelectionSets THEN set ELSE DefaultNodeSet

SingleDefaultPortName == "unnamed"
udpProto == "udp"

-----------------------------------------------------------------------------
(* Configurator: the node inventory.                                       *)

\* the orders in which a range over a Go map with key set S may visit the keys
MapOrders(S) ==
    {o \in [1..Cardinality(S) -> S] : \A x \in S : \E i \in 1..Cardinality(S) : o[i] = x}

\* the subsequence of the keys in order that satisfy Keep
RECURSIVE SelectKeys(_, _)
SelectKeys(order, keep) ==
    IF order = << >> THEN << >>
    ELSE IF Head(order) \in keep THEN << Head(order) >> \o SelectKeys(Tail(order), keep)
    ELSE SelectKeys(Tail(order), keep)

\* serviceListByNodeAddress, visiting serviceUpstreamNodes in the given order
serviceListByNodeAddress(sun, address, order) ==
    SelectKeys(order,
        {svc \in DOMAIN sun :
            \E i \in 1..Len(sun[svc]) :
                sun[svc][i].InternalIP = address \/ sun[svc][i].ExternalIP = address})

\* serviceListByNodeName, visiting serviceUpstreamNodes in the given order
serviceListByNodeName(sun, name, order) ==
    SelectKeys(order,
        {svc \in DOMAIN sun : \E i \in 1..Len(sun[svc]) : sun[svc][i].Name = name})

\* AddOrUpdateNode: the new inventory and the services to reconcile again
AddOrUpdateNode(ns, sun, node, order) ==
    IF ~Has(ns, node.Name)
    THEN [nodes |-> Put(ns, node.Name, node), services |-> << >>]
    ELSE LET elem == ns[node.Name]
         IN  IF node.Active
             THEN [nodes |-> Put(ns, node.Name, node),
                   services |->
                      (IF elem.InternalIP # node.InternalIP
                       THEN serviceListByNodeAddress(sun, elem.InternalIP, order)
                       ELSE << >>)
                      \o
                      (IF elem.ExternalIP # node.ExternalIP
                       THEN serviceListByNodeAddress(sun, elem.ExternalIP, order)
                       ELSE << >>)]
             ELSE [nodes |-> Del(ns, node.Name),
                   services |-> serviceListByNodeName(sun, node.Name, order)]

\* DeleteNode
DeleteNode(ns, sun, key, order) ==
    IF Has(ns, key)
    THEN AddOrUpdateNode(ns, sun, [ns[key] EXCEPT !.Active = FALSE], order)
    ELSE [nodes |-> ns, services |-> << >>]

-----------------------------------------------------------------------------
(* Configurator: rendering a service.                                      *)

\* the name is built from the port name as it is, without the sentinel
getNameForStreamUpstreamRaw(svc, portName) ==
    Str(svc.Namespace) \o "-" \o Str(svc.Name) \o "-" \o portName

getNameForStreamUpstream(svc, portName) ==
    Str(svc.Namespace) \o "-" \o Str(svc.Name) \o "-" \o
        (IF portName = "" THEN SingleDefaultPortName ELSE portName)

formatAddress(addrType, node, target) ==
    IF addrType = Internal
    THEN node.InternalIP \o ":" \o Itoa(target.NodePort)
    ELSE node.ExternalIP \o ":" \o Itoa(target.NodePort)

AppendTarget(sut, key, target) ==
    Put(sut, key, (IF Has(sut, key) THEN sut[key] ELSE << >>) \o << target >>)

\* each create...StreamUpstream returns the upstream and the cross-index as it leaves it
createClusterStreamUpstream(spec, target, ns, sun, sut) ==
    [su  |-> [Name |-> getNameForStreamUpstream(spec.Service, target.PortName),
              Algorithm |-> "", LeastTimeMethod |-> "",
              UpstreamServers |-> << [Address |-> spec.ClusterIP \o ":" \o Itoa(target.ServicePort)] >>],
     sun |-> sun,
     sut |-> AppendTarget(sut, spec.Key, target)]

\* a pod upstream whose member is the service's cluster address
createPodStreamUpstreamByService(spec, target, ns, sun, sut) ==
    createClusterStreamUpstream(spec, target, ns, sun, sut)

createPodStreamUpstream(spec, target, ns, sun, sut) ==
    [su  |-> [Name |-> getNameForStreamUpstream(spec.Service, target.PortName),
              Algorithm |-> "", LeastTimeMethod |-> "",
              UpstreamServers |-> << [Address |-> target.PodIP \o ":" \o Itoa(target.PodPort)] >>],
     sun |-> sun,
     sut |-> AppendTarget(sut, spec.Key, target)]

\* nodeOrder: the order in which the range over the nodes map visits the nodes
createNodesStreamUpstream(spec, target, ns, sun, sut, nodeOrder) ==
    LET set == ValidateNodeSet(GetOptionalStringAnnotation(LBEXNodeSet, spec.Service).val)
        addressType ==
            ValidateNodeAddressType(GetOptionalStringAnnotation(LBEXNodeAddressType, spec.Service).val)
        name == getNameForStreamUpstream(spec.Service, target.PortName)
        su0 == [Name |-> name, Algorithm |-> "", LeastTimeMethod |-> "", UpstreamServers |-> << >>]
    IN  IF set = Host
        THEN IF ~Has(ns, target.NodeName)
             THEN [su |-> su0, sun |-> sun, sut |-> sut]
             ELSE [su  |-> [su0 EXCEPT !.UpstreamServers =
                              << [Address |-> formatAddress(addressType, ns[target.NodeName], target)] >>],
                   sun |-> Put(sun, spec.Key, << ns[target.NodeName] >>),
                   sut |-> sut]
        ELSE [su  |-> [su0 EXCEPT !.UpstreamServers =
                         [i \in 1..Len(nodeOrder) |->
                            [Address |-> formatAddress(addressType, ns[nodeOrder[i]], target)]]],
              sun |-> Put(sun, spec.Key, [i \in 1..Len(nodeOrder) |-> ns[nodeOrder[i]]]),
              sut |-> sut]

\* the body of the loop over svc.Topology in generateStreamNginxConfig, for one
\* target; acc carries upstreams, Servers and the cross-index
generateStep(svc, ns, target, acc, nodeOrder) ==
    LET c == CASE svc.UpstreamType = HostNode ->
                    createNodesStreamUpstream(svc, target, ns, acc.sun, acc.sut, nodeOrder)
               [] svc.UpstreamType = Pod ->
                    createPodStreamUpstream(svc, target, ns, acc.sun, acc.sut)
               [] svc.UpstreamType = ClusterIP ->
                    createClusterStreamUpstream(svc, target, ns, acc.sun, acc.sut)
               [] OTHER ->
                    [su |-> [Name |-> "", Algorithm |-> "", LeastTimeMethod |-> "",
                             UpstreamServers |-> << >>],
                     sun |-> acc.sun, sut |-> acc.sut]
        upstream == c.su
        algorithm == IF svc.Algorithm # RoundRobin THEN svc.Algorithm ELSE ""
        first == [upstream EXCEPT
                    !.Algorithm = algorithm,
                    !.LeastTimeMethod =
                        IF algorithm = LowestLatency
                        THEN ValidateMethod(GetOptionalStringAnnotation(LBEXMethodKey, svc.Service).val)
                        ELSE ""]
        listenPort == GetIntAnnotation(LBEXPortAnnotationBase \o target.PortName, svc.Service)
        passThrough == GetOptionalBoolAnnotation(LBEXIpPassthrough, svc.Service).val
        server == [Listen |-> [Port |-> Itoa(listenPort.val),
                               UDP  |-> EqualFold(target.Protocol, udpProto)],
                   ProxyProtocol    |-> FALSE,
                   ProxyPassthrough |-> passThrough,
                   ProxyPassAddress |-> upstream.Name]
    IN  IF ~Has(acc.upstreams, upstream.Name)
        THEN [upstreams |-> Put(acc.upstreams, upstream.Name, first),
              Servers   |-> IF listenPort.err # "nil" THEN acc.Servers
                            ELSE Append(acc.Servers, server),
              sun |-> c.sun, sut |-> c.sut]
        ELSE [upstreams |-> Put(acc.upstreams, upstream.Name,
                                [acc.upstreams[upstream.Name] EXCEPT
                                    !.UpstreamServers = @ \o upstream.UpstreamServers]),
              Servers   |-> acc.Servers,
              sun |-> c.sun, sut |-> c.sut]

\* the loop over svc.Topology, from target i on
RECURSIVE generateFrom(_, _, _, _, _)
generateFrom(svc, ns, i, acc, nodeOrders) ==
    IF i > Len(svc.Topology) THEN acc
    ELSE CHOOSE out \in {generateFrom(svc, ns, i + 1, next, nodeOrders) :
                            next \in {generateStep(svc, ns, svc.Topology[i], acc, nodeOrders[i])}} : TRUE

\* generateStreamNginxConfig: the configuration and the cross-index it leaves behind.
\* nodeOrders[i] is the visiting order of the nodes map for target i, upstreamOrder
\* that of the final range over the upstreams map.
generateStreamNginxConfig(svc, ns, sun, sut, nodeOrders, upstreamOrder) ==
    LET resolver == GetOptionalStringAnnotation(LBEXResolverKey, svc.Service)
        start == [upstreams |-> EmptyMap, Servers |-> << >>, sun |-> sun, sut |-> sut]
    IN  CHOOSE out \in
            {[cfg |-> [Resolver  |-> IF resolver.ok THEN resolver.val ELSE "",
                       Upstreams |-> [i \in 1..Len(upstreamOrder) |-> r.upstreams[upstreamOrder[i]]],
                       Servers   |-> r.Servers],
              names |-> DOMAIN r.upstreams,
              sun |-> r.sun,
              sut |-> r.sut] : r \in {generateFrom(svc, ns, 1, start, nodeOrders)}} : TRUE

\* the names of the upstreams generateStreamNginxConfig collects for svc
upstreamNames(svc) ==
    {getNameForStreamUpstream(svc.Service, svc.Topology[i].PortName) : i \in 1..Len(svc.Topology)}

nginxConfdPath == << "/etc/nginx/conf.d/" >>

\* nginx.Configuration: LocalCfg when the host is the development machine
LocalCfg  == "LocalCfg"
StreamCfg == "StreamCfg"

\* getStreamConfigFileName
getStreamConfigFileName(name) == nginxConfdPath \o name \o << ".stream.conf" >>

-----------------------------------------------------------------------------
(* Work queue (workqueue.Type) and TaskQueue.                              *)

Queues == {"nodes", "endpoints", "services"}

NoKey == << >>

NewQueue == [queue |-> << >>, dirty |-> {}, processing |-> {}, shuttingDown |-> FALSE]

\* workqueue Add: dropped when shutting down or already dirty; a key being
\* processed is only marked dirty
QueueAdd(w, item) ==
    IF w.shuttingDown THEN w
    ELSE IF item \in w.dirty THEN w
    ELSE IF item \in w.processing THEN [w EXCEPT !.dirty = @ \cup {item}]
    ELSE [w EXCEPT !.dirty = @ \cup {item}, !.queue = Append(@, item)]

\* workqueue Get on a non-empty queue
QueueGet(w) ==
    [w EXCEPT !.queue = Tail(@),
              !.processing = @ \cup {Head(w.queue)},
              !.dirty = @ \ {Head(w.queue)}]

\* workqueue Done: a key marked dirty while it was processed is queued again
QueueDone(w, item) ==
    IF item \in w.dirty
    THEN [w EXCEPT !.processing = @ \ {item}, !.queue = Append(@, item)]
    ELSE [w EXCEPT !.processing = @ \ {item}]

QueueShutDown(w) == [w EXCEPT !.shuttingDown = TRUE]

\* the flag is never reported
IsShuttingDownNever(w) == FALSE

\* TaskQueue.IsShuttingDown
IsShuttingDown(w) == w.shuttingDown

\* an Enqueue that drops the key while it is being reconciled
EnqueueUnlessProcessing(w, obj) ==
    IF IsShuttingDown(w) \/ keyFunc(obj) \in w.processing THEN w
    ELSE QueueAdd(w, keyFunc(obj))

\* TaskQueue.Enqueue
Enqueue(w, obj) ==
    IF IsShuttingDown(w) THEN w
    ELSE QueueAdd(w, keyFunc(obj))

\* TaskQueue.Requeue
Requeue(w, key) == QueueAdd(w, key)

\* enqueuServiceObjects: the keys still in the services store are enqueued in order
RECURSIVE enqueuServiceObjects(_, _, _)
enqueuServiceObjects(w, sStore, keys) ==
    IF keys = << >> THEN w
    ELSE IF ~Has(sStore, Head(keys)) THEN enqueuServiceObjects(w, sStore, Tail(keys))
    ELSE enqueuServiceObjects(Enqueue(w, sStore[Head(keys)]), sStore, Tail(keys))

Count(s, x) == Cardinality({i \in 1..Len(s) : s[i] = x})

\* the observer of enqueues that arrive for the key a worker holds
BurstAfter(q, keys) ==
    IF wpc[q] = "sync" /\ ~wq[q].shuttingDown
    THEN burst[q] + Count(keys, wkey[q])
    ELSE burst[q]

\* the keys enqueuServiceObjects finds in the services store
InStore(sStore, keys) == SelectSeq(keys, LAMBDA key : Has(sStore, key))

NoHist == [key |-> NoKey, content |-> << >>, valid |-> FALSE]

-----------------------------------------------------------------------------
(* The objects the cluster API delivers.                                   *)

IntPort(n) == [Type |-> "Int", IntVal |-> n, StrVal |-> ""]

PortP == [Name |-> "p", Protocol |-> "TCP", Port |-> 80,
          TargetPort |-> IntPort(8080), NodePort |-> 30080]

ClassAnn == (LBEXClassKey :> LBEXClassKeyValue)
PortAnn  == ((LBEXPortAnnotationBase \o "p") :> "8080")

MkService(ns, name, ann) ==
    [Namespace |-> ns, Name |-> name, Type |-> "NodePort", ClusterIP |-> "10.96.0.42",
     Annotations |-> ann, Ports |-> << PortP >>]

\* the shapes a service takes: node/host, node/all, pod, and without the class annotation
ServiceShapes ==
    { ClassAnn @@ PortAnn,
      ClassAnn @@ PortAnn @@ (LBEXNodeSet :> All),
      ClassAnn @@ PortAnn @@ (LBEXUpstreamType :> Pod),
      PortAnn }

NodeN1 == << "n", "1" >>
NodeN2 == << "n", "2" >>

MkEndpoints(ns, name, addrs) ==
    [Namespace |-> ns, Name |-> name,
     Subsets |-> << [Addresses |-> addrs,
                     Ports |-> << [Name |-> "p", Port |-> 8080, Protocol |-> "TCP"] >>] >>]

AddrOnN1 == [IP |-> "10.1.1.5", NodeName |-> NodeN1]
AddrOnN2 == [IP |-> "10.1.2.5", NodeName |-> NodeN2]

EndpointsShapes == { << AddrOnN1 >>, << AddrOnN1, AddrOnN2 >> }

\* Conditions stands for the fields of a node that change without the node
\* changing for the controller (status.conditions, resource version)
MkNode(name, internalIP, unschedulable) ==
    [Namespace |-> << >>, Name |-> name, Annotations |-> {}, Labels |-> {},
     Addresses |-> << [Type |-> "InternalIP", Address |-> internalIP] >>,
     Unschedulable |-> unschedulable, Conditions |-> 0]

\* a schedulable node as the Configurator keeps it in its inventory
InvNode(name, internalIP, externalIP) ==
    [Name |-> name, Hostname |-> "", ExternalIP |-> externalIP,
     InternalIP |-> internalIP, Active |-> TRUE]

\* the addresses a node may have; no address belongs to two nodes
NodeIPs == (NodeN1 :> {"10.0.0.11", "10.0.0.12"}) @@ (NodeN2 :> {"10.0.0.21"})

NsA   == << "a" >>
NameS == << "s" >>

ServiceObjects   == {MkService(NsA, NameS, ann) : ann \in ServiceShapes}
EndpointsObjects == {MkEndpoints(NsA, NameS, addrs) : addrs \in EndpointsShapes}
NodeObjects      ==
    {MkNode(n, ip, u) : n \in {NodeN1}, ip \in NodeIPs[NodeN1], u \in BOOLEAN}
    \cup {MkNode(NodeN2, "10.0.0.21", FALSE)}

-----------------------------------------------------------------------------
(* Initial state: empty caches, empty queues, workers waiting in Get.      *)

ServiceKeys   == {keyFunc(obj) : obj \in ServiceObjects}
EndpointsKeys == {keyFunc(obj) : obj \in EndpointsObjects}
NodeKeys      == {keyFunc(obj) : obj \in NodeObjects}

\* the goroutines that call the Configurator: the services and the nodes worker
Goroutines == {"services", "nodes"}

NoOp == [q |-> "none", key |-> NoKey, op |-> "none", adds |-> 0,
         repeat |-> FALSE, prev |-> << >>, affected |-> {}, write |-> "none", err |-> "nil"]

\* the controller after newLbExController, but for the configuration directory
\* and the commands run
InitController ==
    /\ servicesStore = EmptyMap
    /\ endpointStore = EmptyMap
    /\ nodesStore = EmptyMap
    /\ wq = [q \in Queues |-> NewQueue]
    /\ wpc = [q \in Queues |-> "get"]
    /\ wkey = [q \in Queues |-> NoKey]
    /\ wskip = [q \in Queues |-> FALSE]
    /\ wobj = << >>
    /\ late = [q \in Queues |-> FALSE]
    /\ shutdownCall = [q \in Queues |-> "none"]
    /\ workerDone = [q \in Queues |-> "open"]
    /\ nodes = EmptyMap
    /\ serviceUpstreamNodes = EmptyMap
    /\ serviceUpstreamTarget = EmptyMap
    /\ reloads = 0
    /\ proxy = EmptyMap
    /\ crashed = FALSE
    /\ lock = "free"
    /\ cpc = [g \in Goroutines |-> "idle"]
    /\ lastOp = NoOp
    /\ hist = NoHist
    /\ burst = [q \in Queues |-> 0]
    /\ nevents = 0

\* conf.d is empty and no reconcile has run a command
InitProgram ==
    /\ InitController
    /\ files = EmptyMap
    /\ cmds = << >>

Init ==
    /\ InitProgram
    /\ limit = MaxEvents
    /\ faults = FALSE
    /\ lbexService = << >>
    /\ stopCh = "open"
    /\ rejected = {}
    /\ cfgType = StreamCfg
    /\ pin = << >>
    /\ pout = << >>

-----------------------------------------------------------------------------
(* Informer event handlers: the cache is updated, then the handler runs.   *)

workerVars == << wpc, wkey, wskip, wobj, late, shutdownCall, stopCh, workerDone >>

\* an event of queue q that enqueues the keys in enq (possibly none)
EventFrame(q, w, enq) ==
    /\ ~crashed
    /\ nevents < limit
    /\ nevents' = nevents + 1
    /\ UNCHANGED << limit, faults, lbexService, rejected, cfgType >>
    /\ wq' = [wq EXCEPT ![q] = w]
    /\ burst' = [burst EXCEPT ![q] = BurstAfter(q, enq)]
    /\ hist' = NoHist
    /\ UNCHANGED << workerVars, cfgVars, lastOp, pureVars, lockVars >>

\* serviceCreatedFunc
ServiceAdd(obj) ==
    /\ ~Has(servicesStore, keyFunc(obj))
    /\ servicesStore' = Put(servicesStore, keyFunc(obj), obj)
    /\ UNCHANGED << endpointStore, nodesStore >>
    /\ IF filterObject(obj)
       THEN EventFrame("services", wq["services"], << >>)
       ELSE EventFrame("services", Enqueue(wq["services"], obj), << keyFunc(obj) >>)

\* serviceUpdatedFunc
ServiceUpdate(obj) ==
    /\ Has(servicesStore, keyFunc(obj))
    /\ servicesStore' = Put(servicesStore, keyFunc(obj), obj)
    /\ UNCHANGED << endpointStore, nodesStore >>
    /\ IF filterObject(servicesStore[keyFunc(obj)]) \/ servicesStore[keyFunc(obj)] = obj
       THEN EventFrame("services", wq["services"], << >>)
       ELSE EventFrame("services", Enqueue(wq["services"], obj), << keyFunc(obj) >>)

\* serviceDeletedFunc
ServiceDelete(key) ==
    /\ Has(servicesStore, key)
    /\ servicesStore' = Del(servicesStore, key)
    /\ UNCHANGED << endpointStore, nodesStore >>
    /\ IF filterObject(servicesStore[key])
       THEN EventFrame("services", wq["services"], << >>)
       ELSE EventFrame("services", Enqueue(wq["services"], servicesStore[key]), << key >>)

\* endpointCreatedFunc
EndpointsAdd(obj) ==
    /\ ~Has(endpointStore, keyFunc(obj))
    /\ endpointStore' = Put(endpointStore, keyFunc(obj), obj)
    /\ UNCHANGED << servicesStore, nodesStore >>
    /\ IF filterObject(obj)
       THEN EventFrame("endpoints", wq["endpoints"], << >>)
       ELSE EventFrame("endpoints", Enqueue(wq["endpoints"], obj), << keyFunc(obj) >>)

\* endpointUpdatedFunc
EndpointsUpdate(obj) ==
    /\ Has(endpointStore, keyFunc(obj))
    /\ endpointStore' = Put(endpointStore, keyFunc(obj), obj)
    /\ UNCHANGED << servicesStore, nodesStore >>
    /\ IF filterObject(endpointStore[keyFunc(obj)]) \/ endpointStore[keyFunc(obj)] = obj
       THEN EventFrame("endpoints", wq["endpoints"], << >>)
       ELSE EventFrame("endpoints", Enqueue(wq["endpoints"], obj), << keyFunc(obj) >>)

\* endpointDeletedFunc
EndpointsDelete(key) ==
    /\ Has(endpointStore, key)
    /\ endpointStore' = Del(endpointStore, key)
    /\ UNCHANGED << servicesStore, nodesStore >>
    /\ IF filterObject(endpointStore[key])
       THEN EventFrame("endpoints", wq["endpoints"], << >>)
       ELSE EventFrame("endpoints", Enqueue(wq["endpoints"], endpointStore[key]), << key >>)

\* nodeUpdateEqual: annotations, labels, spec, status.addresses, status.daemonEndpoints
nodeUpdateDeepEqual(old, new) == old = new

nodeUpdateEqual(old, new) ==
    /\ old.Annotations = new.Annotations
    /\ old.Labels = new.Labels
    /\ old.Unschedulable = new.Unschedulable
    /\ old.Addresses = new.Addresses

\* nodeCreatedFunc
NodeAdd(obj) ==
    /\ ~Has(nodesStore, keyFunc(obj))
    /\ nodesStore' = Put(nodesStore, keyFunc(obj), obj)
    /\ UNCHANGED << servicesStore, endpointStore >>
    /\ IF filterNode(obj)
       THEN EventFrame("nodes", wq["nodes"], << >>)
       ELSE EventFrame("nodes", Enqueue(wq["nodes"], obj), << keyFunc(obj) >>)

\* nodeUpdatedFunc
NodeUpdate(obj) ==
    /\ Has(nodesStore, keyFunc(obj))
    /\ nodesStore' = Put(nodesStore, keyFunc(obj), obj)
    /\ UNCHANGED << servicesStore, endpointStore >>
    /\ IF filterNode(nodesStore[keyFunc(obj)]) \/ filterNode(obj)
          \/ nodeUpdateEqual(nodesStore[keyFunc(obj)], obj)
       THEN EventFrame("nodes", wq["nodes"], << >>)
       ELSE EventFrame("nodes", Enqueue(wq["nodes"], obj), << keyFunc(obj) >>)

\* nodeDeletedFunc
NodeDelete(key) ==
    /\ Has(nodesStore, key)
    /\ nodesStore' = Del(nodesStore, key)
    /\ UNCHANGED << servicesStore, endpointStore >>
    /\ IF filterNode(nodesStore[key])
       THEN EventFrame("nodes", wq["nodes"], << >>)
       ELSE EventFrame("nodes", Enqueue(wq["nodes"], nodesStore[key]), << key >>)

-----------------------------------------------------------------------------
(* TaskQueue.worker: Get, then the sync function, Requeue on error, Done.  *)

\* queue.Get returns a key; the sync function's first statement reads IsShuttingDown
WorkerGet(q) ==
    /\ ~crashed
    /\ wpc[q] = "get"
    /\ wq[q].queue # << >>
    /\ wq' = [wq EXCEPT ![q] = QueueGet(@)]
    /\ wkey' = [wkey EXCEPT ![q] = Head(wq[q].queue)]
    /\ wskip' = [wskip EXCEPT ![q] = IsShuttingDown(wq[q])]
    /\ late' = [late EXCEPT ![q] = wq[q].shuttingDown]
    /\ wpc' = [wpc EXCEPT ![q] = "sync"]
    /\ burst' = [burst EXCEPT ![q] = 0]
    /\ UNCHANGED << storeVars, cfgVars, shutdownCall, lastOp, hist, nevents, limit, faults, lbexService, rejected, cfgType, pureVars, lockVars, wobj, stopCh, workerDone >>

\* the worker returns to Get without calling Done
AfterSyncNoDone(w, key, err) ==
    IF err # "nil" THEN Requeue(w, key) ELSE w

\* what the worker does after the sync function returned err for the key it holds
AfterSync(w, key, err) ==
    QueueDone(IF err # "nil" THEN Requeue(w, key) ELSE w, key)

\* the handler calls neither templateStream nor Reload
NoReload ==
    /\ reloads' = 0
    /\ cmds' = << >>
    /\ UNCHANGED << proxy, crashed >>

WorkerFrame(q) ==
    /\ ~crashed
    /\ wpc' = [wpc EXCEPT ![q] = "get"]
    /\ wkey' = [wkey EXCEPT ![q] = NoKey]
    /\ wskip' = [wskip EXCEPT ![q] = FALSE]
    /\ late' = [late EXCEPT ![q] = FALSE]
    /\ wobj' = << >>
    /\ UNCHANGED << stopCh, workerDone >>
    /\ UNCHANGED << storeVars, shutdownCall, nevents, limit, faults, lbexService, rejected, cfgType, pureVars, lockVars >>

Op(q, op) ==
    [q |-> q, key |-> wkey[q], op |-> op, adds |-> burst[q],
     repeat |-> FALSE, prev |-> << >>, affected |-> {}, write |-> "none", err |-> "nil"]

\* the nginx.Node syncNodes builds from a v1.Node
NodeOf(key, obj) ==
    [Name       |-> key,
     Hostname   |-> GetNodeAddress(obj).Hostname,
     ExternalIP |-> GetNodeAddress(obj).ExternalIP,
     InternalIP |-> GetNodeAddress(obj).InternalIP,
     Active     |-> IsNodeScheduleable(obj)]

\* the services whose serviceUpstreamNodes entry names the node
ServicesOfNode(sun, name) ==
    {svc \in DOMAIN sun : \E i \in 1..Len(sun[svc]) : sun[svc][i].Name = name}

\* cache.Store.GetByKey
GetByKey(store, key) ==
    [exists |-> Has(store, key), obj |-> IF Has(store, key) THEN store[key] ELSE << >>]

\* syncNodes from the result of nodesStore.GetByKey on, and the worker's Done
syncNodes(read) ==
    /\ WorkerFrame("nodes")
    /\ LET key == wkey["nodes"]
       IN  IF wskip["nodes"]
           THEN /\ wq' = [wq EXCEPT !["nodes"] = AfterSync(@, key, "nil")]
                /\ burst' = [burst EXCEPT !["nodes"] = 0]
                /\ lastOp' = Op("nodes", "skip")
                /\ NoReload
                /\ UNCHANGED << nodes, serviceUpstreamNodes, serviceUpstreamTarget, files, hist >>
           ELSE \E order \in MapOrders(DOMAIN serviceUpstreamNodes) :
                LET r == IF ~read.exists
                         THEN DeleteNode(nodes, serviceUpstreamNodes, key, order)
                         ELSE AddOrUpdateNode(nodes, serviceUpstreamNodes,
                                              NodeOf(key, read.obj), order)
                IN  /\ nodes' = r.nodes
                    /\ burst' = [burst EXCEPT
                                   !["services"] = BurstAfter("services", InStore(servicesStore, r.services)),
                                   !["nodes"] = 0]
                    /\ wq' = [wq EXCEPT
                                !["services"] = enqueuServiceObjects(@, servicesStore, r.services),
                                !["nodes"] = AfterSync(@, key, "nil")]
                    /\ lastOp' = [Op("nodes", IF read.exists THEN "upsert" ELSE "delete")
                                    EXCEPT !.affected = ServicesOfNode(serviceUpstreamNodes, key),
                                           !.prev = IF Has(nodes, key) THEN << nodes[key] >> ELSE << >>]
                    /\ hist' = IF r.nodes = nodes THEN hist ELSE NoHist
                    /\ NoReload
                    /\ UNCHANGED << serviceUpstreamNodes, serviceUpstreamTarget, files >>

\* syncNodes and the worker's Done in one step
WorkerSyncNodes ==
    /\ wpc["nodes"] = "sync"
    /\ wobj = << >>
    /\ syncNodes(GetByKey(nodesStore, wkey["nodes"]))

\* syncNodes up to the return of nodesStore.GetByKey
WorkerReadNode ==
    /\ ~crashed
    /\ wpc["nodes"] = "sync"
    /\ wobj = << >>
    /\ wobj' = << GetByKey(nodesStore, wkey["nodes"]) >>
    /\ UNCHANGED << storeVars, cfgVars, wq, wpc, wkey, wskip, late, shutdownCall, stopCh,
                    workerDone, lastOp, hist,
                    burst, nevents, limit, faults, lbexService, rejected, cfgType, pureVars, lockVars >>

\* the rest of syncNodes with the object it has read, and the worker's Done
WorkerApplyNode ==
    /\ wpc["nodes"] = "sync"
    /\ wobj # << >>
    /\ syncNodes(wobj[1])

\* syncEndpoints, and the worker's Done
WorkerSyncEndpoints ==
    /\ wpc["endpoints"] = "sync"
    /\ WorkerFrame("endpoints")
    /\ NoReload
    /\ UNCHANGED << nodes, serviceUpstreamNodes, serviceUpstreamTarget, files, hist >>
    /\ LET key == wkey["endpoints"]
           trigger ==
               \/ ~Has(endpointStore, key)
               \/ getServiceNetworkTopo(servicesStore, endpointStore, key) # << >>
       IN  IF wskip["endpoints"]
           THEN /\ wq' = [wq EXCEPT !["endpoints"] = AfterSync(@, key, "nil")]
                /\ burst' = [burst EXCEPT !["endpoints"] = 0]
                /\ lastOp' = Op("endpoints", "skip")
           ELSE /\ wq' = [wq EXCEPT
                            !["services"] = IF trigger
                                            THEN enqueuServiceObjects(@, servicesStore, << key >>)
                                            ELSE @,
                            !["endpoints"] = AfterSync(@, key, "nil")]
                /\ burst' = [burst EXCEPT
                               !["services"] = IF trigger
                                               THEN BurstAfter("services", InStore(servicesStore, << key >>))
                                               ELSE @,
                               !["endpoints"] = 0]
                /\ lastOp' = Op("endpoints", IF trigger THEN "trigger" ELSE "unmanaged")

\* the Targets syncServices copies out of the topology, in order
TargetsOf(topo) == Flatten([i \in 1..Len(topo) |-> topo[i].Endpoints])

\* the ServiceSpec syncServices builds
ServiceSpecOf(key, service, topo) ==
    [Service      |-> service,
     Key          |-> key,
     Algorithm    |-> ValidateAlgorithm(GetOptionalStringAnnotation(LBEXAlgorithmKey, service).val),
     ClusterIP    |-> service.ClusterIP,
     ConfigName   |-> Replace(key, "/", "-"),
     UpstreamType |-> ValidateUpstreamType(GetOptionalStringAnnotation(LBEXUpstreamType, service).val),
     Topology     |-> TargetsOf(topo)]

\* the file syncServices names for a key: conf.d/<key with "/" replaced by "-">.stream.conf
ConfigFileOf(key) == getStreamConfigFileName(Replace(key, "/", "-"))

\* the outcomes of os.Create followed by Template.Execute on the file
WriteOutcomes == IF faults THEN {"ok", "create", "write"} ELSE {"ok"}

\* the outcomes of a shell command: TRUE when it exits with status 0
CmdOutcomes == IF faults THEN BOOLEAN ELSE {TRUE}

\* what os.Create leaves of a file when Template.Execute fails
TruncatedFile == [Resolver |-> "", Upstreams |-> << >>, Servers |-> << >>]

\* the failure is logged and the caller carries on
templateStreamLogged(fs, filename, config, outcome) ==
    CASE outcome = "ok"     -> [files |-> Put(fs, filename, config), fatal |-> FALSE]
      [] outcome = "create" -> [files |-> fs, fatal |-> FALSE]
      [] outcome = "write"  -> [files |-> Put(fs, filename, TruncatedFile), fatal |-> FALSE]

\* templateStream: write the file; glog.Fatalf when it cannot be created or written
templateStream(fs, filename, config, outcome) ==
    CASE cfgType = LocalCfg -> [files |-> fs, fatal |-> FALSE]
      [] outcome = "ok"     -> [files |-> Put(fs, filename, config), fatal |-> FALSE]
      [] outcome = "create" -> [files |-> fs, fatal |-> TRUE]
      [] outcome = "write"  -> [files |-> Put(fs, filename, TruncatedFile), fatal |-> TRUE]

\* the validation command accepts the configuration on disk
ValidatorAccepts(fs) == DOMAIN fs \cap rejected = {}

NginxTest   == "nginx -t"
NginxReload == "nginx -s reload"

NginxStart  == "nginx"

\* the main configuration file NewNginxController writes through
\* UpdateMainConfigFile: none in local mode
mainConfFilename == << "/etc/nginx/nginx.conf" >>

NewNginxController(cfg) ==
    IF cfg # LocalCfg
    THEN Put(EmptyMap, mainConfFilename,
             [Daemon |-> TRUE, DefaultStreamContext |-> cfg = StreamCfg,
              DefaultHTTPContext |-> FALSE])
    ELSE EmptyMap

\* NginxController.Start: the command it runs; the process would be gone had it failed
Start(cfg) ==
    IF cfg # LocalCfg THEN << [cmd |-> NginxStart, ok |-> TRUE] >> ELSE << >>

ErrInvalidConfig == "Reload: Invalid nginx configuration detected, not reloading"
ErrReloadFailed  == "Reload: Reloading NGINX failed"

\* the guard on the mode is left out
ReloadInLocal(testOk, signalOk) ==
    IF ~testOk
    THEN [cmds |-> << [cmd |-> NginxTest, ok |-> FALSE] >>,
          err  |-> ErrInvalidConfig]
    ELSE IF ~signalOk
    THEN [cmds |-> << [cmd |-> NginxTest, ok |-> TRUE], [cmd |-> NginxReload, ok |-> FALSE] >>,
          err  |-> ErrReloadFailed]
    ELSE [cmds |-> << [cmd |-> NginxTest, ok |-> TRUE], [cmd |-> NginxReload, ok |-> TRUE] >>,
          err  |-> "nil"]

\* the reload command is run whatever the test command returned
ReloadUnchecked(testOk, signalOk) ==
    [cmds |-> << [cmd |-> NginxTest, ok |-> testOk], [cmd |-> NginxReload, ok |-> signalOk] >>,
     err  |-> IF ~testOk THEN ErrInvalidConfig
              ELSE IF ~signalOk THEN ErrReloadFailed ELSE "nil"]

\* NginxController.Reload: the commands it runs and the error it returns
Reload(testOk, signalOk) ==
    IF cfgType = LocalCfg
    THEN [cmds |-> << >>, err |-> "nil"]
    ELSE IF ~testOk
    THEN [cmds |-> << [cmd |-> NginxTest, ok |-> FALSE] >>, err |-> ErrInvalidConfig]
    ELSE IF ~signalOk
    THEN [cmds |-> << [cmd |-> NginxTest, ok |-> TRUE], [cmd |-> NginxReload, ok |-> FALSE] >>,
          err  |-> ErrReloadFailed]
    ELSE [cmds |-> << [cmd |-> NginxTest, ok |-> TRUE], [cmd |-> NginxReload, ok |-> TRUE] >>,
          err  |-> "nil"]

\* the running nginx loads the files when a reload command succeeds
Reloaded(r) == \E i \in 1..Len(r.cmds) : r.cmds[i].cmd = NginxReload /\ r.cmds[i].ok

\* NginxController.DeleteStreamConfiguration: os.Remove of the service's file
DeleteStreamConfiguration(fs, name) ==
    IF cfgType # LocalCfg THEN Del(fs, getStreamConfigFileName(name)) ELSE fs

\* DeleteConfiguration(name, StreamCfg): remove the file, purge the cross-index,
\* reload; a reload error is logged
DeleteConfiguration(name, testOk, signalOk) ==
    \E r \in {Reload(testOk /\ ValidatorAccepts(DeleteStreamConfiguration(files, name)),
                      signalOk)} :
        /\ files' = DeleteStreamConfiguration(files, name)
        /\ serviceUpstreamNodes' = Del(serviceUpstreamNodes, name)
        /\ serviceUpstreamTarget' = Del(serviceUpstreamTarget, name)
        /\ reloads' = 1
        /\ cmds' = r.cmds
        /\ proxy' = IF Reloaded(r) THEN files' ELSE proxy
        /\ lastOp' = [Op("services", "delete") EXCEPT !.err = r.err]
        /\ UNCHANGED << nodes, crashed >>

ErrNotStream == "addOrUpdateService: I'm sorry Dave, I'm afraid I can't do that"

\* AddOrUpdateService: an error and nothing else unless the controller is in
\* stream mode; render, write the file, reload; a reload error is logged and
\* nil is returned
AddOrUpdateService(svc, write, testOk, signalOk) ==
    IF cfgType # StreamCfg
    THEN /\ reloads' = 0
         /\ cmds' = << >>
         /\ hist' = NoHist
         /\ lastOp' = [Op("services", "update") EXCEPT !.err = ErrNotStream]
         /\ UNCHANGED << nodes, serviceUpstreamNodes, serviceUpstreamTarget, files, proxy,
                         crashed >>
    ELSE
    \E nodeOrders \in [1..Len(svc.Topology) -> MapOrders(DOMAIN nodes)],
       upstreamOrder \in MapOrders(upstreamNames(svc)) :
        \E r \in {generateStreamNginxConfig(svc, nodes, serviceUpstreamNodes,
                                            serviceUpstreamTarget, nodeOrders, upstreamOrder)} :
        \E t \in {templateStream(files, getStreamConfigFileName(svc.ConfigName), r.cfg, write)} :
        \E rl \in {Reload(testOk /\ ValidatorAccepts(t.files), signalOk)} :
            /\ files' = t.files
            /\ serviceUpstreamNodes' = r.sun
            /\ serviceUpstreamTarget' = r.sut
            /\ UNCHANGED nodes
            /\ IF t.fatal
               THEN /\ crashed' = TRUE
                    /\ reloads' = 0
                    /\ cmds' = << >>
                    /\ hist' = NoHist
                    /\ lastOp' = [Op("services", "update") EXCEPT !.write = write]
                    /\ UNCHANGED proxy
               ELSE /\ crashed' = FALSE
                    /\ reloads' = 1
                    /\ cmds' = rl.cmds
                    /\ proxy' = IF Reloaded(rl) THEN files' ELSE proxy
                    /\ hist' = [key |-> svc.Key, content |-> r.cfg, valid |-> TRUE]
                    /\ lastOp' = [Op("services", "update") EXCEPT
                                    !.repeat = hist.valid /\ hist.key = svc.Key,
                                    !.prev = hist.content,
                                    !.write = write,
                                    !.err = rl.err]

\* syncServices, and the worker's Done; the process is gone after a fatal write
WorkerSyncServices ==
    /\ wpc["services"] = "sync"
    /\ WorkerFrame("services")
    /\ wq' = [wq EXCEPT !["services"] = AfterSync(@, wkey["services"], "nil")]
    /\ burst' = [burst EXCEPT !["services"] = 0]
    /\ LET key  == wkey["services"]
           conf == Replace(key, "/", "-")
       IN  IF wskip["services"]
           THEN /\ lastOp' = Op("services", "skip")
                /\ NoReload
                /\ UNCHANGED << nodes, serviceUpstreamNodes, serviceUpstreamTarget, files, hist >>
           ELSE IF ~Has(servicesStore, key)
           THEN /\ \E testOk \in CmdOutcomes, signalOk \in CmdOutcomes :
                       DeleteConfiguration(conf, testOk, signalOk)
                /\ hist' = NoHist
           ELSE \E topo \in {getServiceNetworkTopo(servicesStore, endpointStore, key)} :
                IF topo = << >>
                THEN /\ lastOp' = Op("services", "unmanaged")
                     /\ hist' = NoHist
                     /\ NoReload
                     /\ UNCHANGED << nodes, serviceUpstreamNodes, serviceUpstreamTarget, files >>
                ELSE \E svc \in {ServiceSpecOf(key, servicesStore[key], topo)} :
                     \E write \in WriteOutcomes, testOk \in CmdOutcomes, signalOk \in CmdOutcomes :
                         AddOrUpdateService(svc, write, testOk, signalOk)

\* queue.Get reports shutdown on an empty queue: the worker closes workerDone
\* and returns; the close of a closed channel panics
WorkerQuit(q) ==
    /\ ~crashed
    /\ wpc[q] = "get"
    /\ wq[q].queue = << >>
    /\ wq[q].shuttingDown
    /\ IF workerDone[q] = "open"
       THEN /\ workerDone' = [workerDone EXCEPT ![q] = "closed"]
            /\ wpc' = [wpc EXCEPT ![q] = "exited"]
            /\ UNCHANGED crashed
       ELSE /\ crashed' = TRUE
            /\ UNCHANGED << workerDone, wpc >>
    /\ UNCHANGED << storeVars, nodes, serviceUpstreamNodes, serviceUpstreamTarget, files,
                    reloads, cmds, proxy, wq, wkey, wskip, late, shutdownCall, lastOp, hist,
                    burst, nevents, limit, faults, lbexService, rejected, cfgType, pureVars, lockVars, wobj, stopCh >>

\* wait.Until in TaskQueue.Run: the worker function has returned, the stop
\* channel is open, and after the period the worker function is called again
WorkerRerun(q) ==
    /\ ~crashed
    /\ wpc[q] = "exited"
    /\ stopCh = "open"
    /\ wpc' = [wpc EXCEPT ![q] = "get"]
    /\ UNCHANGED << storeVars, cfgVars, wq, wkey, wskip, late, shutdownCall, lastOp, hist,
                    burst, nevents, limit, faults, lbexService, rejected, cfgType, pureVars, lockVars, wobj,
                    stopCh, workerDone >>

\* close(stopCh) by whoever stops the controller
StopClose ==
    /\ ~crashed
    /\ stopCh = "open"
    /\ stopCh' = "closed"
    /\ UNCHANGED << storeVars, cfgVars, wq, wpc, wkey, wskip, late, shutdownCall, lastOp, hist,
                    burst, nevents, limit, faults, lbexService, rejected, cfgType, pureVars, lockVars, wobj,
                    workerDone >>

\* TaskQueue.Shutdown: queue.ShutDown(), then wait for workerDone
Shutdown(q) ==
    /\ ~crashed
    /\ shutdownCall[q] = "none"
    /\ shutdownCall' = [shutdownCall EXCEPT ![q] = "waiting"]
    /\ wq' = [wq EXCEPT ![q] = QueueShutDown(@)]
    /\ UNCHANGED << storeVars, cfgVars, wpc, wkey, wskip, late, lastOp, hist, burst, nevents, limit, faults, lbexService, rejected, cfgType, pureVars, lockVars, wobj, stopCh, workerDone >>

\* <-t.workerDone
ShutdownReturn(q) ==
    /\ ~crashed
    /\ shutdownCall[q] = "waiting"
    /\ workerDone[q] = "closed"
    /\ shutdownCall' = [shutdownCall EXCEPT ![q] = "returned"]
    /\ UNCHANGED << storeVars, cfgVars, wq, wpc, wkey, wskip, late, lastOp, hist, burst, nevents, limit, faults, lbexService, rejected, cfgType, pureVars, lockVars, wobj, stopCh, workerDone >>

-----------------------------------------------------------------------------
(* The controller as it runs: nothing calls TaskQueue.Shutdown.            *)

Next ==
    \/ \E obj \in ServiceObjects : ServiceAdd(obj)
    \/ \E obj \in ServiceObjects : ServiceUpdate(obj)
    \/ \E key \in ServiceKeys : ServiceDelete(key)
    \/ \E obj \in EndpointsObjects : EndpointsAdd(obj)
    \/ \E obj \in EndpointsObjects : EndpointsUpdate(obj)
    \/ \E key \in EndpointsKeys : EndpointsDelete(key)
    \/ \E obj \in NodeObjects : NodeAdd(obj)
    \/ \E obj \in NodeObjects : NodeUpdate(obj)
    \/ \E key \in NodeKeys : NodeDelete(key)
    \/ \E q \in Queues : WorkerGet(q)
    \/ WorkerSyncNodes
    \/ WorkerSyncEndpoints
    \/ WorkerSyncServices

Spec == Init /\ [][Next]_vars

Quiescent ==
    \A q \in Queues : wq[q].queue = << >> /\ wq[q].processing = {} /\ wpc[q] # "sync"

-----------------------------------------------------------------------------
(* One host-set service with endpoints on two nodes, and the node events   *)
(* that add, readdress and remove the nodes.                               *)

HostService   == MkService(NsA, NameS, ClassAnn @@ PortAnn)
TwoNodeEndpoints == MkEndpoints(NsA, NameS, << AddrOnN1, AddrOnN2 >>)
SchedulableNodes ==
    {MkNode(NodeN1, ip, FALSE) : ip \in NodeIPs[NodeN1]} \cup {MkNode(NodeN2, "10.0.0.21", FALSE)}

InitNodes ==
    /\ InitProgram
    /\ limit = MaxNodeEvents
    /\ faults = FALSE
    /\ lbexService = << >>
    /\ stopCh = "open"
    /\ rejected = {}
    /\ cfgType = StreamCfg
    /\ pin = << >>
    /\ pout = << >>

NextNodes ==
    \/ ServiceAdd(HostService)
    \/ EndpointsAdd(TwoNodeEndpoints)
    \/ \E obj \in SchedulableNodes : NodeAdd(obj)
    \/ \E obj \in SchedulableNodes : NodeUpdate(obj)
    \/ \E key \in NodeKeys : NodeDelete(key)
    \/ \E q \in Queues : WorkerGet(q)
    \/ WorkerSyncNodes
    \/ WorkerSyncEndpoints
    \/ WorkerSyncServices

SpecNodes == InitNodes /\ [][NextNodes]_vars

-----------------------------------------------------------------------------
(* The controller under a supervisor that shuts the queues down.  Every    *)
(* worker and every Shutdown caller is a goroutine that keeps running.     *)
(* The supervisor has closed the stop channel before, so that wait.Until   *)
(* does not call a worker function again.                                  *)

InitShutdown ==
    /\ InitProgram
    /\ limit = MaxShutdownEvents
    /\ faults = FALSE
    /\ lbexService = << >>
    /\ stopCh = "closed"
    /\ rejected = {}
    /\ cfgType = StreamCfg
    /\ pin = << >>
    /\ pout = << >>

PodService == MkService(NsA, NameS, ClassAnn @@ PortAnn @@ (LBEXUpstreamType :> Pod))
OneNodeEndpoints == MkEndpoints(NsA, NameS, << AddrOnN1 >>)

NextShutdown ==
    \/ \E obj \in {HostService, PodService} : ServiceAdd(obj)
    \/ \E obj \in {HostService, PodService} : ServiceUpdate(obj)
    \/ \E key \in ServiceKeys : ServiceDelete(key)
    \/ EndpointsAdd(OneNodeEndpoints)
    \/ \E q \in Queues : WorkerGet(q)
    \/ WorkerSyncEndpoints
    \/ WorkerSyncServices
    \/ \E q \in {"endpoints", "services"} : WorkerQuit(q)
    \/ \E q \in {"endpoints", "services"} : Shutdown(q)
    \/ \E q \in {"endpoints", "services"} : ShutdownReturn(q)

WorkerFair(q) ==
    /\ WF_vars(WorkerGet(q))
    /\ WF_vars(WorkerQuit(q))
    /\ WF_vars(ShutdownReturn(q))

SpecShutdown ==
    /\ InitShutdown
    /\ [][NextShutdown]_vars
    /\ \A q \in {"endpoints", "services"} : WorkerFair(q)
    /\ WF_vars(WorkerSyncEndpoints)
    /\ WF_vars(WorkerSyncServices)

-----------------------------------------------------------------------------
(* The controller on a host where writing a file and running nginx may     *)
(* fail.                                                                   *)

InitFaults ==
    /\ InitProgram
    /\ limit = MaxFaultEvents
    /\ faults = TRUE
    /\ lbexService = << >>
    /\ stopCh = "open"
    /\ rejected = {}
    /\ cfgType = StreamCfg
    /\ pin = << >>
    /\ pout = << >>

NextFaults ==
    \/ \E obj \in {HostService, PodService} : ServiceAdd(obj)
    \/ \E obj \in {HostService, PodService} : ServiceUpdate(obj)
    \/ \E key \in ServiceKeys : ServiceDelete(key)
    \/ EndpointsAdd(OneNodeEndpoints)
    \/ \E q \in {"endpoints", "services"} : WorkerGet(q)
    \/ WorkerSyncEndpoints
    \/ WorkerSyncServices

SpecFaults == InitFaults /\ [][NextFaults]_vars

-----------------------------------------------------------------------------
(* The Configurator calls of the services worker (AddOrUpdateService,      *)
(* DeleteConfiguration) and of the nodes worker (AddOrUpdateNode,          *)
(* DeleteNode) step by step: Lock, the body, the two nginx commands of     *)
(* Reload, Unlock.  DeleteNode looks the node up before it calls           *)
(* AddOrUpdateNode, which takes the lock.  syncEndpoints makes no          *)
(* Configurator call.                                                      *)

\* the mutex is handed out whether or not it is held
MutexFreeAlways(l) == TRUE

\* sync.Mutex.Lock returns only once the mutex is free
MutexFree(l) == l = "free"

LockKey == keyFunc(HostService)

\* the ServiceSpec syncServices passes for a host-set service with endpoints on two nodes
LockSvc ==
    ServiceSpecOf(LockKey, HostService,
                  getServiceNetworkTopo(Put(EmptyMap, LockKey, HostService),
                                        Put(EmptyMap, LockKey, TwoNodeEndpoints), LockKey))

LockNodes == {InvNode(NodeN1, ip, "") : ip \in NodeIPs[NodeN1]}
                 \cup {InvNode(NodeN2, "10.0.0.21", "")}

InitLock ==
    /\ InitProgram
    /\ limit = 0
    /\ faults = TRUE
    /\ lbexService = << >>
    /\ stopCh = "open"
    /\ rejected = {}
    /\ cfgType = StreamCfg
    /\ pin = << >>
    /\ pout = << >>

LockFrame ==
    UNCHANGED << storeVars, wq, workerVars, lastOp, hist, burst, nevents, limit, faults, lbexService, rejected, cfgType, pureVars >>

\* the goroutine calls a Configurator method and reaches cfgtor.lock.Lock()
CfgCall(g) ==
    /\ cpc[g] = "idle"
    /\ cpc' = [cpc EXCEPT ![g] = "waiting"]
    /\ UNCHANGED << cfgVars, lock >>
    /\ LockFrame

\* the nodes worker calls DeleteNode and reaches its lookup nodes[key]
CfgCallDeleteNode ==
    /\ cpc["nodes"] = "idle"
    /\ cpc' = [cpc EXCEPT !["nodes"] = "lookup"]
    /\ UNCHANGED << cfgVars, lock >>
    /\ LockFrame

\* DeleteNode: node, ok := nodes[key]; return nil for an unknown node, else
\* call AddOrUpdateNode with the node made inactive and reach its Lock()
CfgDeleteNodeLookup ==
    /\ cpc["nodes"] = "lookup"
    /\ \E key \in NodeKeys :
          cpc' = [cpc EXCEPT !["nodes"] = IF Has(nodes, key) THEN "waitingDelete" ELSE "idle"]
    /\ UNCHANGED << cfgVars, lock >>
    /\ LockFrame

\* cfgtor.lock.Lock() returns
CfgLock(g) ==
    /\ cpc[g] \in {"waiting", "waitingDelete"}
    /\ MutexFree(lock)
    /\ lock' = g
    /\ cpc' = [cpc EXCEPT ![g] = IF cpc[g] = "waiting" THEN "locked" ELSE "lockedDelete"]
    /\ UNCHANGED cfgVars
    /\ LockFrame

\* the body of AddOrUpdateNode called by syncNodes
CfgNodeBody ==
    /\ cpc["nodes"] = "locked"
    /\ \E order \in MapOrders(DOMAIN serviceUpstreamNodes) :
       \E r \in {AddOrUpdateNode(nodes, serviceUpstreamNodes, node, order) : node \in LockNodes} :
           nodes' = r.nodes
    /\ cpc' = [cpc EXCEPT !["nodes"] = "done"]
    /\ UNCHANGED << serviceUpstreamNodes, serviceUpstreamTarget, files, reloads, cmds,
                    proxy, crashed, lock >>
    /\ LockFrame

\* the body of AddOrUpdateNode called by DeleteNode for a node it has found
CfgDeleteNodeBody ==
    /\ cpc["nodes"] = "lockedDelete"
    /\ \E order \in MapOrders(DOMAIN serviceUpstreamNodes) :
       \E r \in {DeleteNode(nodes, serviceUpstreamNodes, key, order) : key \in DOMAIN nodes} :
           nodes' = r.nodes
    /\ cpc' = [cpc EXCEPT !["nodes"] = "done"]
    /\ UNCHANGED << serviceUpstreamNodes, serviceUpstreamTarget, files, reloads, cmds,
                    proxy, crashed, lock >>
    /\ LockFrame

\* AddOrUpdateService up to the call of Reload: render and write the file
CfgServiceWrite ==
    /\ cpc["services"] = "locked"
    /\ \E nodeOrders \in [1..Len(LockSvc.Topology) -> MapOrders(DOMAIN nodes)],
          upstreamOrder \in MapOrders(upstreamNames(LockSvc)) :
        \E r \in {generateStreamNginxConfig(LockSvc, nodes, serviceUpstreamNodes,
                                            serviceUpstreamTarget, nodeOrders, upstreamOrder)} :
        \E t \in {templateStream(files, getStreamConfigFileName(LockSvc.ConfigName), r.cfg, "ok")} :
            /\ files' = t.files
            /\ serviceUpstreamNodes' = r.sun
            /\ serviceUpstreamTarget' = r.sut
    /\ reloads' = 1
    /\ cmds' = << >>
    /\ cpc' = [cpc EXCEPT !["services"] = "reload"]
    /\ UNCHANGED << nodes, proxy, crashed, lock >>
    /\ LockFrame

\* DeleteConfiguration up to the call of Reload: remove the file, purge the cross-index
CfgServiceDelete ==
    /\ cpc["services"] = "locked"
    /\ files' = Del(files, getStreamConfigFileName(LockSvc.ConfigName))
    /\ serviceUpstreamNodes' = Del(serviceUpstreamNodes, LockSvc.ConfigName)
    /\ serviceUpstreamTarget' = Del(serviceUpstreamTarget, LockSvc.ConfigName)
    /\ reloads' = 1
    /\ cmds' = << >>
    /\ cpc' = [cpc EXCEPT !["services"] = "reload"]
    /\ UNCHANGED << nodes, proxy, crashed, lock >>
    /\ LockFrame

\* Reload: shellOut("nginx -t") returns
CfgTest ==
    /\ cpc["services"] = "reload"
    /\ \E testOk \in CmdOutcomes :
          /\ cmds' = SubSeq(Reload(testOk, TRUE).cmds, 1, 1)
          /\ cpc' = [cpc EXCEPT !["services"] = IF Len(Reload(testOk, TRUE).cmds) > 1
                                                THEN "tested" ELSE "done"]
    /\ UNCHANGED << nodes, serviceUpstreamNodes, serviceUpstreamTarget, files, reloads,
                    proxy, crashed, lock >>
    /\ LockFrame

\* Reload: shellOut("nginx -s reload") returns
CfgSignal ==
    /\ cpc["services"] = "tested"
    /\ \E signalOk \in CmdOutcomes :
       \E r \in {Reload(TRUE, signalOk)} :
          /\ cmds' = r.cmds
          /\ proxy' = IF Reloaded(r) THEN files ELSE proxy
    /\ cpc' = [cpc EXCEPT !["services"] = "done"]
    /\ UNCHANGED << nodes, serviceUpstreamNodes, serviceUpstreamTarget, files, reloads,
                    crashed, lock >>
    /\ LockFrame

\* the deferred cfgtor.lock.Unlock()
CfgUnlock(g) ==
    /\ cpc[g] = "done"
    /\ lock' = "free"
    /\ cpc' = [cpc EXCEPT ![g] = "idle"]
    /\ UNCHANGED cfgVars
    /\ LockFrame

NextLock ==
    \/ \E g \in Goroutines : CfgCall(g)
    \/ CfgCallDeleteNode
    \/ CfgDeleteNodeLookup
    \/ \E g \in Goroutines : CfgLock(g)
    \/ CfgNodeBody
    \/ CfgDeleteNodeBody
    \/ CfgServiceWrite
    \/ CfgServiceDelete
    \/ CfgTest
    \/ CfgSignal
    \/ \E g \in Goroutines : CfgUnlock(g)

SpecLock == InitLock /\ [][NextLock]_vars

-----------------------------------------------------------------------------
(* The controller on a cluster that has a service in the reserved system   *)
(* namespace next to an ordinary one.                                      *)

NsSystem == << "k", "u", "b", "e", "-", "s", "y", "s", "t", "e", "m" >>

SystemNamespaces == {NsSystem, NsA}

SystemServices ==
    {MkService(ns, NameS, ann) :
        ns \in SystemNamespaces,
        ann \in {ClassAnn @@ PortAnn, ClassAnn @@ PortAnn @@ (LBEXUpstreamType :> Pod)}}

SystemEndpoints ==
    {MkEndpoints(ns, NameS, addrs) : ns \in SystemNamespaces, addrs \in EndpointsShapes}

SystemKeys == {keyFunc(obj) : obj \in SystemServices}

InitSystem ==
    /\ InitProgram
    /\ limit = MaxSystemEvents
    /\ faults = FALSE
    /\ lbexService = << >>
    /\ stopCh = "open"
    /\ rejected = {}
    /\ cfgType = StreamCfg
    /\ pin = << >>
    /\ pout = << >>

NextSystem ==
    \/ \E obj \in SystemServices : ServiceAdd(obj)
    \/ \E obj \in SystemServices : ServiceUpdate(obj)
    \/ \E key \in SystemKeys : ServiceDelete(key)
    \/ \E obj \in SystemEndpoints : EndpointsAdd(obj)
    \/ \E obj \in SystemEndpoints : EndpointsUpdate(obj)
    \/ \E key \in SystemKeys : EndpointsDelete(key)
    \/ \E obj \in SchedulableNodes : NodeAdd(obj)
    \/ \E obj \in SchedulableNodes : NodeUpdate(obj)
    \/ \E q \in Queues : WorkerGet(q)
    \/ WorkerSyncNodes
    \/ WorkerSyncEndpoints
    \/ WorkerSyncServices

SpecSystem == InitSystem /\ [][NextSystem]_vars

-----------------------------------------------------------------------------
(* One service, its endpoints and one node, each added once and then       *)
(* updated: by a re-sync that delivers the object unchanged, by a change   *)
(* the controller acts on, and for the node by a change of its conditions. *)

BaseNode == MkNode(NodeN1, "10.0.0.11", FALSE)

UpdatedNodes ==
    {BaseNode,
     [BaseNode EXCEPT !.Conditions = 1],
     [BaseNode EXCEPT !.Labels = {"zone"}],
     [BaseNode EXCEPT !.Annotations = {"note"}],
     [BaseNode EXCEPT !.Unschedulable = TRUE],
     MkNode(NodeN1, "10.0.0.12", FALSE),
     [MkNode(NodeN1, "10.0.0.12", FALSE) EXCEPT !.Conditions = 1]}

UpdatedServices == {HostService, PodService}

UpdatedEndpoints == {OneNodeEndpoints, TwoNodeEndpoints}

InitUpdates ==
    /\ InitProgram
    /\ limit = MaxUpdateEvents
    /\ faults = FALSE
    /\ lbexService = << >>
    /\ stopCh = "open"
    /\ rejected = {}
    /\ cfgType = StreamCfg
    /\ pin = << >>
    /\ pout = << >>

NextUpdates ==
    \/ ServiceAdd(HostService)
    \/ \E obj \in UpdatedServices : ServiceUpdate(obj)
    \/ EndpointsAdd(OneNodeEndpoints)
    \/ \E obj \in UpdatedEndpoints : EndpointsUpdate(obj)
    \/ NodeAdd(BaseNode)
    \/ \E obj \in UpdatedNodes : NodeUpdate(obj)
    \/ \E q \in Queues : WorkerGet(q)
    \/ WorkerSyncNodes
    \/ WorkerSyncEndpoints
    \/ WorkerSyncServices

SpecUpdates == InitUpdates /\ [][NextUpdates]_vars

-----------------------------------------------------------------------------
(* The controller started with --service-name s on a cluster with services *)
(* s and t in namespace a and a service s in namespace b.                  *)

NsOther   == << "b" >>
NameOther == << "t" >>

NamedIdentities == {<< NsA, NameS >>, << NsA, NameOther >>, << NsOther, NameS >>}

NamedServices ==
    {MkService(id[1], id[2], ann) : id \in NamedIdentities, ann \in {ClassAnn @@ PortAnn, PortAnn}}

NamedEndpoints == {MkEndpoints(id[1], id[2], << AddrOnN1 >>) : id \in NamedIdentities}

NamedKeys == {keyFunc(obj) : obj \in NamedServices}

InitNamed ==
    /\ InitProgram
    /\ limit = MaxNamedEvents
    /\ faults = FALSE
    /\ lbexService = NameS
    /\ stopCh = "open"
    /\ rejected = {}
    /\ cfgType = StreamCfg
    /\ pin = << >>
    /\ pout = << >>

NextNamed ==
    \/ \E obj \in NamedServices : ServiceAdd(obj)
    \/ \E obj \in NamedServices : ServiceUpdate(obj)
    \/ \E obj \in NamedEndpoints : EndpointsAdd(obj)
    \/ \E q \in {"endpoints", "services"} : WorkerGet(q)
    \/ WorkerSyncEndpoints
    \/ WorkerSyncServices

SpecNamed == InitNamed /\ [][NextNamed]_vars

-----------------------------------------------------------------------------
(* A TaskQueue made by NewTaskQueue with a sync function that may return   *)
(* an error, its worker, and callers of Enqueue.                           *)

TaskKeys == {<< "k", "1" >>, << "k", "2" >>}

SyncResults == {"nil", "error"}

\* a caller hands an object with the key to TaskQueue.Enqueue
TaskEnqueue(q, key) ==
    /\ UNCHANGED storeVars
    /\ EventFrame(q, Enqueue(wq[q], [Namespace |-> << >>, Name |-> key]), << key >>)

\* TaskQueue.worker after Get: t.sync(key) returns err, Requeue on error, Done
WorkerSyncTask(q, err) ==
    /\ wpc[q] = "sync"
    /\ WorkerFrame(q)
    /\ wq' = [wq EXCEPT ![q] = AfterSync(@, wkey[q], err)]
    /\ burst' = [burst EXCEPT ![q] = 0]
    /\ lastOp' = [Op(q, "sync") EXCEPT !.err = err]
    /\ NoReload
    /\ UNCHANGED << nodes, serviceUpstreamNodes, serviceUpstreamTarget, files, hist >>

InitTaskQueue ==
    /\ InitProgram
    /\ limit = MaxTaskEvents
    /\ faults = FALSE
    /\ lbexService = << >>
    /\ stopCh = "open"
    /\ rejected = {}
    /\ cfgType = StreamCfg
    /\ pin = << >>
    /\ pout = << >>

NextTaskQueue ==
    \/ \E q \in Queues, key \in TaskKeys : TaskEnqueue(q, key)
    \/ \E q \in Queues : WorkerGet(q)
    \/ \E q \in Queues, err \in SyncResults : WorkerSyncTask(q, err)

SpecTaskQueue == InitTaskQueue /\ [][NextTaskQueue]_vars

-----------------------------------------------------------------------------
(* One service, with or without the class annotation, whose endpoints      *)
(* record gains and loses its addresses.                                   *)

\* an endpoints record none of whose pods is ready: it has no subsets
NoAddressEndpoints == [Namespace |-> NsA, Name |-> NameS, Subsets |-> << >>]

ChangingEndpoints == {NoAddressEndpoints, OneNodeEndpoints, TwoNodeEndpoints}

PlainService == MkService(NsA, NameS, PortAnn)

InitEndpoints ==
    /\ InitProgram
    /\ limit = MaxEndpointEvents
    /\ faults = FALSE
    /\ lbexService = << >>
    /\ stopCh = "open"
    /\ rejected = {}
    /\ cfgType = StreamCfg
    /\ pin = << >>
    /\ pout = << >>

NextEndpoints ==
    \/ \E obj \in {PodService, PlainService} : ServiceAdd(obj)
    \/ \E obj \in ChangingEndpoints : EndpointsAdd(obj)
    \/ \E obj \in ChangingEndpoints : EndpointsUpdate(obj)
    \/ EndpointsDelete(keyFunc(OneNodeEndpoints))
    \/ \E q \in {"endpoints", "services"} : WorkerGet(q)
    \/ WorkerSyncEndpoints
    \/ WorkerSyncServices

SpecEndpoints == InitEndpoints /\ [][NextEndpoints]_vars

-----------------------------------------------------------------------------
(* Node events and the nodes worker, whose reconcile reads the cache in    *)
(* one step and acts in a later one: events arrive in between.             *)

InitOrder ==
    /\ InitProgram
    /\ limit = MaxOrderEvents
    /\ faults = FALSE
    /\ lbexService = << >>
    /\ stopCh = "open"
    /\ rejected = {}
    /\ cfgType = StreamCfg
    /\ pin = << >>
    /\ pout = << >>

NextOrder ==
    \/ \E obj \in SchedulableNodes : NodeAdd(obj)
    \/ \E obj \in SchedulableNodes : NodeUpdate(obj)
    \/ \E key \in NodeKeys : NodeDelete(key)
    \/ WorkerGet("nodes")
    \/ WorkerReadNode
    \/ WorkerApplyNode

SpecOrder == InitOrder /\ [][NextOrder]_vars

-----------------------------------------------------------------------------
(* Admissibility as a function of the service record.                      *)

AdmClassAnnotations ==
    { EmptyMap,
      ClassAnn,
      (LBEXClassKey :> "loadbalancer.lbex"),
      ("kubernetes.io/loadbalancer.class" :> LBEXClassKeyValue) }

AdmOtherAnnotations == { EmptyMap, PortAnn, (LBEXUpstreamType :> Pod) }

AdmInputs ==
    { [Namespace |-> NsA, Name |-> NameS, Type |-> type, ClusterIP |-> ip,
       Annotations |-> class @@ other, Ports |-> ports] :
        type \in {"ClusterIP", "NodePort", "LoadBalancer", "ExternalName"},
        ip \in {"10.96.0.42", "", "None", "none"},
        class \in AdmClassAnnotations,
        other \in AdmOtherAnnotations,
        ports \in {<< >>, << PortP >>} }

InitAdmissible ==
    /\ InitProgram
    /\ limit = 0
    /\ faults = FALSE
    /\ lbexService = << >>
    /\ stopCh = "open"
    /\ rejected = {}
    /\ cfgType = StreamCfg
    /\ pin \in AdmInputs
    /\ pout = << >>

\* ValidateServiceObject(pin)
ApplyValidateServiceObject ==
    /\ pout = << >>
    /\ pout' = << ValidateServiceObject(pin) >>
    /\ UNCHANGED << storeVars, cfgVars, wq, workerVars, lastOp, hist, burst, nevents, limit, faults, lbexService, rejected, cfgType, pin, lockVars >>

NextAdmissible == ApplyValidateServiceObject

SpecAdmissible == InitAdmissible /\ [][NextAdmissible]_vars

-----------------------------------------------------------------------------
(* The configuration name of a service as a function of its identity.      *)

Namespaces   == { << "a" >>, << "a", "-", "b" >>, << "b" >> }
ServiceNames == { << "c" >>, << "b", "-", "c" >>, << "a" >> }

Identities == { [Namespace |-> ns, Name |-> name] : ns \in Namespaces, name \in ServiceNames }

InitConfName ==
    /\ InitProgram
    /\ limit = 0
    /\ faults = FALSE
    /\ lbexService = << >>
    /\ stopCh = "open"
    /\ rejected = {}
    /\ cfgType = StreamCfg
    /\ pin \in { << a, b >> : a \in Identities, b \in Identities }
    /\ pout = << >>

\* the file syncServices writes or deletes for each of the two services
ApplyConfName ==
    /\ pout = << >>
    /\ pout' = << ConfigFileOf(keyFunc(pin[1])), ConfigFileOf(keyFunc(pin[2])) >>
    /\ UNCHANGED << storeVars, cfgVars, wq, workerVars, lastOp, hist, burst, nevents, limit, faults, lbexService, rejected, cfgType, pin, lockVars >>

NextConfName == ApplyConfName

SpecConfName == InitConfName /\ [][NextConfName]_vars

-----------------------------------------------------------------------------
(* Configuration: command-line flags and the environment (config.envParse). *)

FlagServiceName == << "s", "e", "r", "v", "i", "c", "e", "-", "n", "a", "m", "e" >>
FlagHealthCheck == << "h", "e", "a", "l", "t", "h", "-", "c", "h", "e", "c", "k" >>
FlagHealthPort  == << "h", "e", "a", "l", "t", "h", "-", "p", "o", "r", "t" >>
FlagVersion     == << "v", "e", "r", "s", "i", "o", "n" >>

\* newConfig: the flags of the model with their type and default
FlagDefs ==
    (FlagServiceName :> [kind |-> "string", default |-> ""])
    @@ (FlagHealthCheck :> [kind |-> "bool", default |-> TRUE])
    @@ (FlagHealthPort :> [kind |-> "int", default |-> 7331])
    @@ (FlagVersion :> [kind |-> "bool", default |-> FALSE])

envSupport ==
    (FlagServiceName :> TRUE) @@ (FlagHealthCheck :> TRUE)
    @@ (FlagHealthPort :> TRUE) @@ (FlagVersion :> FALSE)

LowerLetters == << "a", "c", "e", "h", "i", "k", "l", "m", "n", "o", "p", "r", "s", "t", "v" >>
UpperLetters == << "A", "C", "E", "H", "I", "K", "L", "M", "N", "O", "P", "R", "S", "T", "V" >>

\* strings.ToUpper on the letters of the flag names
ToUpper(s) ==
    [i \in 1..Len(s) |->
        IF \E j \in 1..Len(LowerLetters) : LowerLetters[j] = s[i]
        THEN UpperLetters[CHOOSE j \in 1..Len(LowerLetters) : LowerLetters[j] = s[i]]
        ELSE s[i]]

\* variableName
variableName(name) == << "L", "B", "E", "X", "_" >> \o ToUpper(Replace(name, "-", "_"))

\* os.Getenv: the empty string for a variable that is not set
Getenv(env, key) == IF key \in DOMAIN env THEN env[key] ELSE ""

\* pflag's Value.Set for the three flag types
FlagValueSet(kind, text) ==
    CASE kind = "string" -> [val |-> text, err |-> "nil"]
      [] kind = "bool" -> ParseBool(text)
      [] kind = "int" -> Atoi(text)

\* flag.Parse: the values after the command line, and the flags it has set
FlagParse(args) ==
    [values |-> [f \in DOMAIN FlagDefs |->
                    IF f \in DOMAIN args THEN FlagValueSet(FlagDefs[f].kind, args[f]).val
                    ELSE FlagDefs[f].default],
     actual |-> DOMAIN args]

\* envParse without the map of the flags the command line has set
alreadySetNone(actual) == {}

\* envParse: the variables of the supported flags the command line has set
alreadySet(actual) == {variableName(f) : f \in {g \in actual : envSupport[g]}}

\* envParse: every supported flag the command line has not set takes the value
\* of its variable when that is not empty and FlagSet.Set accepts it
envParse(parsed, env) ==
    LET fromEnv(f) ==
            /\ envSupport[f]
            /\ variableName(f) \notin alreadySet(parsed.actual)
            /\ Getenv(env, variableName(f)) # ""
        set(f) == FlagValueSet(FlagDefs[f].kind, Getenv(env, variableName(f)))
    IN  [values |-> [f \in DOMAIN FlagDefs |->
                        IF fromEnv(f) /\ set(f).err = "nil" THEN set(f).val
                        ELSE parsed.values[f]],
         err |-> \E f \in DOMAIN FlagDefs : fromEnv(f) /\ set(f).err # "nil"]

EnvServiceName == << "L", "B", "E", "X", "_", "S", "E", "R", "V", "I", "C", "E", "_", "N", "A", "M", "E" >>
EnvHealthCheck == << "L", "B", "E", "X", "_", "H", "E", "A", "L", "T", "H", "_", "C", "H", "E", "C", "K" >>
EnvHealthPort  == << "L", "B", "E", "X", "_", "H", "E", "A", "L", "T", "H", "_", "P", "O", "R", "T" >>
EnvVersion     == << "L", "B", "E", "X", "_", "V", "E", "R", "S", "I", "O", "N" >>

\* the maps that give each key of keys a value of its choices, or leave it out
RECURSIVE PartialMaps(_, _)
PartialMaps(keys, choices) ==
    IF keys = {} THEN {EmptyMap}
    ELSE LET k == CHOOSE x \in keys : TRUE
             rest == PartialMaps(keys \ {k}, choices)
         IN  rest \cup {Put(m, k, v) : m \in rest, v \in choices[k]}

\* command lines: values the flag's type accepts (flag.Parse exits otherwise)
CommandLines ==
    PartialMaps({FlagServiceName, FlagHealthCheck, FlagHealthPort, FlagVersion},
                (FlagServiceName :> {"s", "t"}) @@ (FlagHealthCheck :> {"true", "false"})
                @@ (FlagHealthPort :> {"8080"}) @@ (FlagVersion :> {"true"}))

\* environments: any text, also empty and text the flag's type rejects
Environments ==
    PartialMaps({EnvServiceName, EnvHealthCheck, EnvHealthPort, EnvVersion},
                (EnvServiceName :> {"", "s", "u"}) @@ (EnvHealthCheck :> {"", "false", "abc"})
                @@ (EnvHealthPort :> {"9000", "abc"}) @@ (EnvVersion :> {"true"}))

InitEnv ==
    /\ InitProgram
    /\ limit = 0
    /\ faults = FALSE
    /\ lbexService = << >>
    /\ stopCh = "open"
    /\ rejected = {}
    /\ cfgType = StreamCfg
    /\ pin \in {[args |-> a, env |-> e] : a \in CommandLines, e \in Environments}
    /\ pout = << >>

\* main: flag.Parse, then envParse, whose error is dropped
ApplyEnvParse ==
    /\ pout = << >>
    /\ pout' = << envParse(FlagParse(pin.args), pin.env) >>
    /\ UNCHANGED << storeVars, cfgVars, wq, workerVars, lastOp, hist, burst, nevents, limit, faults, lbexService, rejected, cfgType, pin, lockVars >>

NextEnv == ApplyEnvParse

SpecEnv == InitEnv /\ [][NextEnv]_vars

-----------------------------------------------------------------------------
(* The configuration syncServices renders, as a function of the service,   *)
(* its endpoints, the node inventory and the require-port flag.            *)

PortU == [Name |-> "", Protocol |-> "TCP", Port |-> 80,
          TargetPort |-> IntPort(8080), NodePort |-> 30080]
PortQ == [Name |-> "q", Protocol |-> "UDP", Port |-> 90,
          TargetPort |-> IntPort(9090), NodePort |-> 30090]

RenderPorts == { << PortP >>, << PortU >>, << PortP, PortQ >> }

RenderPortAnnotations ==
    { EmptyMap,
      PortAnn,
      (LBEXPortAnnotationBase \o SingleDefaultPortName) :> "9000",
      PortAnn @@ ((LBEXPortAnnotationBase \o "q") :> "9090") }

RenderKinds ==
    { EmptyMap,
      (LBEXNodeAddressType :> External),
      (LBEXNodeSet :> All),
      (LBEXUpstreamType :> Pod),
      (LBEXUpstreamType :> ClusterIP) }

RenderServices ==
    { [MkService(NsA, NameS, ClassAnn @@ kind @@ ann) EXCEPT !.Ports = ports] :
        kind \in RenderKinds, ann \in RenderPortAnnotations, ports \in RenderPorts }

AddrOnN1b == [IP |-> "10.1.1.6", NodeName |-> NodeN1]

RenderAddresses == { << AddrOnN1 >>, << AddrOnN1, AddrOnN1b >>, << AddrOnN1, AddrOnN2 >> }

\* the endpoints port that backs a service port
EndpointPortOf(sp) == [Name |-> sp.Name, Port |-> sp.TargetPort.IntVal, Protocol |-> sp.Protocol]

\* the endpoints objects the cluster holds for a service: every port, or only the first
RenderEndpoints(service) ==
    { [Namespace |-> service.Namespace, Name |-> service.Name,
       Subsets |-> << [Addresses |-> addrs,
                       Ports |-> [i \in 1..n |-> EndpointPortOf(service.Ports[i])]] >>] :
        addrs \in RenderAddresses, n \in 1..Len(service.Ports) }

RenderInventories ==
    { EmptyMap,
      NodeN1 :> InvNode(NodeN1, "10.0.0.11", "192.0.2.11"),
      (NodeN1 :> InvNode(NodeN1, "10.0.0.11", "192.0.2.11"))
          @@ (NodeN2 :> InvNode(NodeN2, "10.0.0.21", "192.0.2.21")) }

InitRender ==
    /\ InitProgram
    /\ limit = 0
    /\ faults = FALSE
    /\ lbexService = << >>
    /\ stopCh = "open"
    /\ rejected = {}
    /\ cfgType = StreamCfg
    /\ pin \in { [service |-> service, endpoints |-> endpoints,
                  inventory |-> inventory, requirePort |-> requirePort] :
                    service \in RenderServices,
                    endpoints \in UNION {RenderEndpoints(svc) : svc \in RenderServices},
                    inventory \in RenderInventories,
                    requirePort \in BOOLEAN }
    /\ pin.endpoints \in RenderEndpoints(pin.service)
    /\ pout = << >>

\* syncServices from getServiceNetworkTopo to generateStreamNginxConfig, on caches
\* that hold pin.service and pin.endpoints and the inventory pin.inventory
ApplyRender ==
    /\ pout = << >>
    /\ \E key \in {keyFunc(pin.service)} :
       \E topo \in {getServiceNetworkTopo(Put(EmptyMap, key, pin.service),
                                          Put(EmptyMap, key, pin.endpoints), key)} :
           IF topo = << >>
           THEN pout' = << [rendered |-> FALSE, targets |-> << >>,
                            cfg |-> [Resolver |-> "", Upstreams |-> << >>, Servers |-> << >>]] >>
           ELSE \E svc \in {ServiceSpecOf(key, pin.service, topo)} :
                \E nodeOrders \in [1..Len(svc.Topology) -> MapOrders(DOMAIN pin.inventory)],
                   upstreamOrder \in MapOrders(upstreamNames(svc)) :
                    \E r \in {generateStreamNginxConfig(svc, pin.inventory, EmptyMap, EmptyMap,
                                                        nodeOrders, upstreamOrder)} :
                        pout' = << [rendered |-> TRUE, targets |-> svc.Topology, cfg |-> r.cfg] >>
    /\ UNCHANGED << storeVars, cfgVars, wq, workerVars, lastOp, hist, burst, nevents, limit, faults, lbexService, rejected, cfgType, pin, lockVars >>

NextRender == ApplyRender

SpecRender == InitRender /\ [][NextRender]_vars

-----------------------------------------------------------------------------
(* The render of services that carry the algorithm and method annotations. *)

AlgorithmAnnotations ==
    { EmptyMap } \cup
    { (LBEXAlgorithmKey :> a) : a \in {"round_robin", "least_conn", "least_time", "random", ""} }

MethodAnnotations ==
    { EmptyMap } \cup
    { (LBEXMethodKey :> m) : m \in {"connect", "last_byte", "first_byte inflight", "fastest"} }

AlgorithmServices ==
    { MkService(NsA, NameS, ClassAnn @@ PortAnn @@ kind @@ alg @@ method) :
        kind \in {EmptyMap, (LBEXUpstreamType :> Pod), (LBEXUpstreamType :> ClusterIP)},
        alg \in AlgorithmAnnotations, method \in MethodAnnotations }

InitAlgorithm ==
    /\ InitProgram
    /\ limit = 0
    /\ faults = FALSE
    /\ lbexService = << >>
    /\ stopCh = "open"
    /\ rejected = {}
    /\ cfgType = StreamCfg
    /\ pin \in { [service |-> service, endpoints |-> MkEndpoints(NsA, NameS, addrs),
                  inventory |-> NodeN1 :> InvNode(NodeN1, "10.0.0.11", "192.0.2.11"),
                  requirePort |-> TRUE] :
                    service \in AlgorithmServices, addrs \in RenderAddresses }
    /\ pout = << >>

NextAlgorithm == ApplyRender

SpecAlgorithm == InitAlgorithm /\ [][NextAlgorithm]_vars

-----------------------------------------------------------------------------
(* The optional annotation readers as functions of a name and a service.   *)

OptionalNames == {LBEXHostKey, LBEXIpPassthrough, LBEXPortAnnotationBase \o "p", ""}

OptionalValues == {"", "true", "false", "80", "8080", "maybe"}

OptionalServices ==
    { MkService(NsA, NameS, ann) :
        ann \in {EmptyMap, ClassAnn}
                \cup {ClassAnn @@ (name :> v) : name \in OptionalNames \ {""}, v \in OptionalValues} }

InitOptional ==
    /\ InitProgram
    /\ limit = 0
    /\ faults = FALSE
    /\ lbexService = << >>
    /\ stopCh = "open"
    /\ rejected = {}
    /\ cfgType = StreamCfg
    /\ pin \in { [name |-> name, service |-> service] :
                    name \in OptionalNames, service \in OptionalServices }
    /\ pout = << >>

\* the three GetOptional...Annotation functions on pin.name and pin.service
ApplyGetOptional ==
    /\ pout = << >>
    /\ pout' = << [string |-> GetOptionalStringAnnotation(pin.name, pin.service),
                   bool   |-> GetOptionalBoolAnnotation(pin.name, pin.service),
                   int    |-> GetOptionalIntAnnotation(pin.name, pin.service)] >>
    /\ UNCHANGED << storeVars, cfgVars, wq, workerVars, lastOp, hist, burst, nevents, limit,
                    faults, lbexService, rejected, cfgType, pin, lockVars >>

NextOptional == ApplyGetOptional

SpecOptional == InitOptional /\ [][NextOptional]_vars

-----------------------------------------------------------------------------
(* The task queues as TaskQueue.Run drives them: wait.Until calls the      *)
(* worker function again while the stop channel is open.  A supervisor     *)
(* calls Shutdown and closes the stop channel, in any order.               *)

InitRun ==
    /\ InitProgram
    /\ limit = MaxRunEvents
    /\ faults = FALSE
    /\ lbexService = << >>
    /\ stopCh = "open"
    /\ rejected = {}
    /\ cfgType = StreamCfg
    /\ pin = << >>
    /\ pout = << >>

NextRun ==
    \/ ServiceAdd(PodService)
    \/ EndpointsAdd(OneNodeEndpoints)
    \/ \E q \in Queues : WorkerGet(q)
    \/ WorkerSyncEndpoints
    \/ WorkerSyncServices
    \/ \E q \in {"endpoints", "services"} : WorkerQuit(q)
    \/ \E q \in {"endpoints", "services"} : WorkerRerun(q)
    \/ \E q \in {"endpoints", "services"} : Shutdown(q)
    \/ \E q \in {"endpoints", "services"} : ShutdownReturn(q)
    \/ StopClose

SpecRun == InitRun /\ [][NextRun]_vars

-----------------------------------------------------------------------------
(* Two services of which the proxy's validator rejects the file of one.    *)

ValidateServices  == {MkService(ns, NameS, ClassAnn @@ PortAnn @@ (LBEXUpstreamType :> Pod)) :
                         ns \in {NsA, NsOther}}
ValidateEndpoints == {MkEndpoints(ns, NameS, << AddrOnN1 >>) : ns \in {NsA, NsOther}}
ValidateKeys      == {keyFunc(obj) : obj \in ValidateServices}

InitValidate ==
    /\ InitProgram
    /\ limit = MaxValidateEvents
    /\ faults = FALSE
    /\ lbexService = << >>
    /\ stopCh = "open"
    /\ rejected = {ConfigFileOf(keyFunc(MkService(NsA, NameS, PortAnn)))}
    /\ cfgType = StreamCfg
    /\ pin = << >>
    /\ pout = << >>

NextValidate ==
    \/ \E obj \in ValidateServices : ServiceAdd(obj)
    \/ \E key \in ValidateKeys : ServiceDelete(key)
    \/ \E obj \in ValidateEndpoints : EndpointsAdd(obj)
    \/ \E q \in {"endpoints", "services"} : WorkerGet(q)
    \/ WorkerSyncEndpoints
    \/ WorkerSyncServices

SpecValidate == InitValidate /\ [][NextValidate]_vars

-----------------------------------------------------------------------------
(* The controller in either mode, from its construction on: the main       *)
(* configuration file NewNginxController writes and the command Start runs *)
(* are part of the first state.  The other specifications run in stream    *)
(* mode and leave those two out: no reconcile reads or changes them.       *)

InitLocal ==
    /\ InitController
    /\ limit = MaxLocalEvents
    /\ faults = FALSE
    /\ lbexService = << >>
    /\ stopCh = "open"
    /\ rejected = {}
    /\ cfgType \in {LocalCfg, StreamCfg}
    /\ files = NewNginxController(cfgType)
    /\ cmds = Start(cfgType)
    /\ pin = << >>
    /\ pout = << >>

NextLocal ==
    \/ ServiceAdd(HostService)
    \/ ServiceDelete(keyFunc(HostService))
    \/ EndpointsAdd(TwoNodeEndpoints)
    \/ \E obj \in SchedulableNodes : NodeAdd(obj)
    \/ \E key \in NodeKeys : NodeDelete(key)
    \/ \E q \in Queues : WorkerGet(q)
    \/ WorkerSyncNodes
    \/ WorkerSyncEndpoints
    \/ WorkerSyncServices

SpecLocal == InitLocal /\ [][NextLocal]_vars

-----------------------------------------------------------------------------
(* The topology resolver as a function of the two cache objects it reads.  *)

StrPort(name) == [Type |-> "String", IntVal |-> 0, StrVal |-> name]

PortW == [Name |-> "w", Protocol |-> "TCP", Port |-> 81,
          TargetPort |-> StrPort("web"), NodePort |-> 30081]

ResolveServices ==
    { [MkService(NsA, NameS, ClassAnn @@ PortAnn) EXCEPT !.Ports = ports] :
        ports \in { << PortP >>, << PortW >>, << PortQ, PortP >> } }

EpP    == [Name |-> "p",   Port |-> 8080, Protocol |-> "TCP"]
EpPUdp == [Name |-> "u",   Port |-> 8080, Protocol |-> "UDP"]
EpWeb  == [Name |-> "web", Port |-> 8081, Protocol |-> "TCP"]
EpQ    == [Name |-> "q",   Port |-> 9090, Protocol |-> "UDP"]

ResolvePortLists == { << EpP >>, << EpQ >>, << EpQ, EpP >>, << EpWeb >>, << EpP, EpPUdp >> }

AddrNoNode == [IP |-> "10.1.3.5", NodeName |-> NilNodeName]

ResolveAddressLists ==
    { << AddrOnN1 >>, << AddrOnN2, AddrOnN1 >>, << AddrNoNode >>, << AddrOnN1, AddrNoNode >> }

ResolveSubsets ==
    { [Addresses |-> addrs, Ports |-> ports] :
        addrs \in ResolveAddressLists, ports \in ResolvePortLists }

ResolveEndpoints ==
    { [Namespace |-> NsA, Name |-> NameS, Subsets |-> subsets] :
        subsets \in UNION {[1..n -> ResolveSubsets] : n \in 0..MaxSubsets} }

InitResolve ==
    /\ InitProgram
    /\ limit = 0
    /\ faults = FALSE
    /\ lbexService = << >>
    /\ stopCh = "open"
    /\ rejected = {}
    /\ cfgType = StreamCfg
    /\ pin \in { [service |-> service, endpoints |-> endpoints] :
                    service \in ResolveServices, endpoints \in ResolveEndpoints }
    /\ pout = << >>

\* the outcome of getServiceNetworkTopo on caches that hold the two objects
ResolveOutcome(service, endpoints) ==
    LET key == keyFunc(service)
        sStore == Put(EmptyMap, key, service)
        eStore == Put(EmptyMap, key, endpoints)
        panic == \E i \in 1..Len(service.Ports) :
                     getEndpointsPanics(eStore, service, service.Ports[i])
    IN  [panic |-> panic,
         topo  |-> IF panic THEN << >> ELSE getServiceNetworkTopo(sStore, eStore, key)]

\* getServiceNetworkTopo for pin.service on caches that hold pin.service and pin.endpoints
ApplyResolve ==
    /\ pout = << >>
    /\ pout' = << ResolveOutcome(pin.service, pin.endpoints) >>
    /\ UNCHANGED << storeVars, cfgVars, wq, workerVars, lastOp, hist, burst, nevents, limit,
                    faults, lbexService, rejected, cfgType, pin, lockVars >>

NextResolve == ApplyResolve

SpecResolve == InitResolve /\ [][NextResolve]_vars

-----------------------------------------------------------------------------
(* Claims                                                                  *)

\* the services in the cache that are admissible and resolve to at least one Target
Rendered ==
    {key \in DOMAIN servicesStore :
        /\ ValidateServiceObject(servicesStore[key])
        /\ TargetsOf(getServiceNetworkTopo(servicesStore, endpointStore, key)) # << >>}

\* C1: at every quiescent point the files in conf.d are exactly the files of
\* the services that are in the cache, admissible and have at least one Target.
C1_ConfSetExact ==
    Quiescent => DOMAIN files = {ConfigFileOf(key) : key \in Rendered}

\* C2: after syncServices processed a key whose service is gone, the file is
\* removed, neither cross-index map has an entry under the service's key, and
\* exactly one reload was requested.
C2_DeletePurges ==
    (lastOp.q = "services" /\ lastOp.op = "delete") =>
        /\ ~Has(files, ConfigFileOf(lastOp.key))
        /\ ~Has(serviceUpstreamNodes, lastOp.key)
        /\ ~Has(serviceUpstreamTarget, lastOp.key)
        /\ reloads = 1

AddressChanged(old, new) ==
    old.InternalIP # new.InternalIP \/ old.ExternalIP # new.ExternalIP

InServicesQueue(key) ==
    key \in wq["services"].dirty \/ key \in wq["services"].processing

\* C3: once syncNodes has updated a known node whose internal or external
\* address changed, every service of the cache whose serviceUpstreamNodes entry
\* contained the node before the call is on the services queue or in reconcile.
C3_AddressChangeFansOut ==
    (/\ lastOp.q = "nodes"
     /\ lastOp.op = "upsert"
     /\ lastOp.prev # << >>
     /\ Has(nodes, lastOp.key)
     /\ AddressChanged(lastOp.prev[1], nodes[lastOp.key]))
    => \A svc \in lastOp.affected : Has(servicesStore, svc) => InServicesQueue(svc)

\* the member addresses a configuration file lists
MemberAddresses(cfg) ==
    UNION {{cfg.Upstreams[i].UpstreamServers[j].Address :
                j \in 1..Len(cfg.Upstreams[i].UpstreamServers)} :
           i \in 1..Len(cfg.Upstreams)}

\* the member addresses a node can contribute to the upstream of port p
AddressesOfNode(name) == {ip \o ":" \o Itoa(PortP.NodePort) : ip \in NodeIPs[name]}

\* C4: once a node is deleted and the queues have drained, no configuration
\* file lists a member address of the deleted node.
C4_DeletedNodeLeavesFiles ==
    Quiescent =>
        \A name \in DOMAIN NodeIPs : ~Has(nodesStore, name) =>
            \A f \in DOMAIN files : MemberAddresses(files[f]) \cap AddressesOfNode(name) = {}

\* C5: when the reconcile of a key completes, the key is queued exactly once
\* if it was enqueued at least once during the reconcile and not at all
\* otherwise, and no key is ever queued twice.
C5_EnqueuesCollapse ==
    [][\A q \in Queues :
          /\ (wpc[q] = "sync" /\ wpc'[q] = "get") =>
                Count(wq'[q].queue, wkey[q]) = (IF burst[q] >= 1 THEN 1 ELSE 0)
          /\ \A i, j \in 1..Len(wq'[q].queue) : wq'[q].queue[i] = wq'[q].queue[j] => i = j]_vars

\* a reconcile completed during which its key was enqueued twice, and the key is queued once
C5_Witness ==
    /\ lastOp.q \in Queues
    /\ lastOp.adds >= 2
    /\ wpc[lastOp.q] = "get"
    /\ Count(wq[lastOp.q].queue, lastOp.key) = 1

\* no file is created or rewritten by the step
FilesKept == \A f \in DOMAIN files' : Has(files, f) /\ files'[f] = files[f]

EnqueuesRejected(q) == wq'[q].dirty \subseteq wq[q].dirty

InFlight(q) == wpc[q] = "sync" /\ ~late[q]

C7_RepeatIsIdentical ==
    (lastOp.q = "services" /\ lastOp.op = "update" /\ lastOp.repeat) =>
        /\ files[ConfigFileOf(lastOp.key)] = lastOp.prev
        /\ reloads <= 1

HeadlessSentinels == {"None", "none", "NONE"}

\* C8: ValidateServiceObject is true exactly when the class annotation has the
\* recognized value, the type is NodePort, ClusterIP or LoadBalancer, and the
\* cluster IP is not the headless sentinel, whatever the other fields hold.
C8_AdmissibleIff ==
    pout # << >> =>
        pout[1] = (/\ LBEXClassKey \in DOMAIN pin.Annotations
                   /\ pin.Annotations[LBEXClassKey] = LBEXClassKeyValue
                   /\ pin.Type \in {"NodePort", "ClusterIP", "LoadBalancer"}
                   /\ pin.ClusterIP \notin HeadlessSentinels)

\* an admissible record that carries other annotations and a port
C8_Witness ==
    /\ pout = << TRUE >>
    /\ pin.Type = "LoadBalancer"
    /\ LBEXUpstreamType \in DOMAIN pin.Annotations
    /\ pin.Ports # << >>

\* C9: two services with distinct keys never map to the same configuration file.
C9_FileNameOneToOne ==
    (pout # << >> /\ keyFunc(pin[1]) # keyFunc(pin[2])) => pout[1] # pout[2]

\* C10: at every quiescent moment a service key has an entry in
\* serviceUpstreamNodes or serviceUpstreamTarget exactly when its file exists.
C10_IndexMatchesFiles ==
    Quiescent =>
        \A key \in ServiceKeys \cup DOMAIN serviceUpstreamNodes \cup DOMAIN serviceUpstreamTarget :
            (Has(serviceUpstreamNodes, key) \/ Has(serviceUpstreamTarget, key))
                <=> Has(files, ConfigFileOf(key))

\* the admissible services of the cache with upstream-type node and node-set all
AllSetServices ==
    {key \in DOMAIN servicesStore :
        /\ ValidateServiceObject(servicesStore[key])
        /\ ValidateUpstreamType(
              GetOptionalStringAnnotation(LBEXUpstreamType, servicesStore[key]).val) = HostNode
        /\ ValidateNodeSet(GetOptionalStringAnnotation(LBEXNodeSet, servicesStore[key]).val) = All}

\* the schedulable nodes of the inventory
SchedulableInventory == {n \in DOMAIN nodes : nodes[n].Active}

\* the members of an upstream group that carry the address of inventory node n
MembersOfNode(up, n) ==
    {j \in 1..Len(up.UpstreamServers) :
        up.UpstreamServers[j].Address = nodes[n].InternalIP \o ":" \o Itoa(PortP.NodePort)}

\* C11: at every quiescent point, each upstream group in the file of an
\* admissible node/all service has exactly one member for every schedulable
\* node of the inventory.
C11_AllSetCoversInventory ==
    Quiescent =>
        \A key \in AllSetServices : Has(files, ConfigFileOf(key)) =>
            \A i \in 1..Len(files[ConfigFileOf(key)].Upstreams) :
                \A n \in SchedulableInventory :
                    Cardinality(MembersOfNode(files[ConfigFileOf(key)].Upstreams[i], n)) = 1

\* the upstream type, node set and node address type a service asks for
UpstreamTypeOf(service) ==
    ValidateUpstreamType(GetOptionalStringAnnotation(LBEXUpstreamType, service).val)
NodeSetOf(service) ==
    ValidateNodeSet(GetOptionalStringAnnotation(LBEXNodeSet, service).val)
AddressTypeOf(service) ==
    ValidateNodeAddressType(GetOptionalStringAnnotation(LBEXNodeAddressType, service).val)

\* the Targets of the render that belong to the upstream group up
TargetsOfGroup(up) ==
    {j \in 1..Len(pout[1].targets) :
        getNameForStreamUpstream(pin.service, pout[1].targets[j].PortName) = up.Name}

\* <internal or external IP of inventory node n>:<nodePort of target j>
HostMemberAddress(n, j) ==
    (IF AddressTypeOf(pin.service) = External
     THEN pin.inventory[n].ExternalIP ELSE pin.inventory[n].InternalIP)
        \o ":" \o Itoa(pout[1].targets[j].NodePort)

\* C12: for upstream-type node with node-set host, every upstream group has
\* exactly one member for each distinct inventory node that hosts a Target of
\* the group's port, with address <internal or external IP>:<nodePort>, and no
\* other member.
C12_HostSetOnePerNode ==
    (/\ pout # << >>
     /\ pout[1].rendered
     /\ UpstreamTypeOf(pin.service) = HostNode
     /\ NodeSetOf(pin.service) = Host)
    => \A i \in 1..Len(pout[1].cfg.Upstreams) :
          LET up    == pout[1].cfg.Upstreams[i]
              hosts == {pout[1].targets[j].NodeName : j \in TargetsOfGroup(up)}
                           \cap DOMAIN pin.inventory
          IN  /\ {up.UpstreamServers[k].Address : k \in 1..Len(up.UpstreamServers)}
                    = {HostMemberAddress(pout[1].targets[j].NodeName, j) :
                          j \in {t \in TargetsOfGroup(up) :
                                    pout[1].targets[t].NodeName \in DOMAIN pin.inventory}}
              /\ Len(up.UpstreamServers) = Cardinality(hosts)

\* namespace-name-portname for service port i, "unnamed" standing for the
\* missing name of a single port
GroupNameOf(i) ==
    Str(pin.service.Namespace) \o "-" \o Str(pin.service.Name) \o "-" \o
        (IF Len(pin.service.Ports) = 1 /\ pin.service.Ports[i].Name = ""
         THEN "unnamed" ELSE pin.service.Ports[i].Name)

\* the upstream groups of the render that carry the name of service port i
GroupsOfPort(i) ==
    {k \in 1..Len(pout[1].cfg.Upstreams) : pout[1].cfg.Upstreams[k].Name = GroupNameOf(i)}

ResolvedPorts ==
    {i \in 1..Len(pin.service.Ports) :
        \E j \in 1..Len(pout[1].targets) :
            pout[1].targets[j].ServicePort = pin.service.Ports[i].Port}

PortAnnotationOf(i) ==
    LBEXPortAnnotationBase \o
        (IF pin.service.Ports[i].Name = "" THEN "unnamed" ELSE pin.service.Ports[i].Name)

\* the stream servers of the render that pass to the upstream group of service port i
ListenersOf(i) ==
    {k \in 1..Len(pout[1].cfg.Servers) :
        pout[1].cfg.Servers[k].ProxyPassAddress = GroupNameOf(i)}

\* C14: for every service port with Targets, the listener port is the value of
\* the port's annotation; if the annotation is absent the port has no listener
\* when require-port is true and listens on the service port value when
\* require-port is false.
C14_ListenerPort ==
    (pout # << >> /\ pout[1].rendered) =>
        \A i \in ResolvedPorts :
            IF PortAnnotationOf(i) \in DOMAIN pin.service.Annotations
            THEN /\ ListenersOf(i) # {}
                 /\ \A k \in ListenersOf(i) :
                       pout[1].cfg.Servers[k].Listen.Port =
                           pin.service.Annotations[PortAnnotationOf(i)]
            ELSE IF pin.requirePort
            THEN ListenersOf(i) = {}
            ELSE /\ ListenersOf(i) # {}
                 /\ \A k \in ListenersOf(i) :
                       pout[1].cfg.Servers[k].Listen.Port = Itoa(pin.service.Ports[i].Port)

\* C15: Reload runs the test command first; when the test fails it returns the
\* invalid-configuration error and the reload command is not run; the reload
\* command is run only after a successful test, and is run after every
\* successful test.
C15_ReloadValidatesFirst ==
    cmds # << >> =>
        /\ cmds[1].cmd = NginxTest
        /\ ~cmds[1].ok => (Len(cmds) = 1 /\ lastOp.err = ErrInvalidConfig)
        /\ cmds[1].ok => (Len(cmds) = 2 /\ cmds[2].cmd = NginxReload)
        /\ \A i \in 1..Len(cmds) : cmds[i].cmd = NginxReload => (i = 2 /\ cmds[1].ok)

\* a reconcile wrote a file, the test command rejected it and nothing else was run
C15_Witness ==
    /\ lastOp.op = "update"
    /\ lastOp.err = ErrInvalidConfig
    /\ cmds = << [cmd |-> NginxTest, ok |-> FALSE] >>
    /\ Has(files, ConfigFileOf(lastOp.key))
    /\ ~Has(proxy, ConfigFileOf(lastOp.key))

\* C17: after AddOrUpdateService's reload failed, the service key is on the
\* services queue again, or already being reconciled again.
C17_ReloadFailureRequeues ==
    (lastOp.q = "services" /\ lastOp.op = "update" /\ lastOp.err # "nil")
        => InServicesQueue(lastOp.key)

\* C18: a reconcile whose file could not be created or written terminates the
\* process without calling Reload, and once the process has terminated no
\* file, queue, worker or nginx state changes any more.
C18_WriteFailureIsFatal ==
    /\ []((lastOp.op = "update" /\ lastOp.write \in {"create", "write"})
            => (crashed /\ reloads = 0 /\ cmds = << >>))
    /\ [][crashed => UNCHANGED << files, proxy, cmds, reloads, lastOp, wq, wpc, wkey >>]_vars

\* the process terminated on a failed write while a key was still waiting
C18_Witness ==
    /\ crashed
    /\ lastOp.op = "update"
    /\ lastOp.write = "write"
    /\ files[ConfigFileOf(lastOp.key)] = TruncatedFile
    /\ wq["services"].queue # << >>

\* the goroutine is between the call of Reload and its return
ReloadInFlight(g) == cpc[g] \in {"reload", "tested"}

\* C16: at most one validate/reload sequence is in flight at any time; the
\* goroutine running it holds the configurator's lock and no other goroutine
\* is past the Lock() of a Configurator operation.
C16_ReloadsSerialized ==
    /\ Cardinality({g \in Goroutines : ReloadInFlight(g)}) <= 1
    /\ \A g \in Goroutines :
          ReloadInFlight(g) =>
              /\ lock = g
              /\ \A h \in Goroutines \ {g} :
                     cpc[h] \in {"idle", "lookup", "waiting", "waitingDelete"}

\* the reload command is about to run while the nodes worker waits for the lock
C16_Witness ==
    /\ cpc["services"] = "tested"
    /\ cpc["nodes"] = "waiting"
    /\ lock = "services"
    /\ nodes # EmptyMap

\* the key names an object of the reserved system namespace
IsSystemKey(key) ==
    /\ Len(key) > Len(NsSystem)
    /\ \A i \in 1..Len(NsSystem) : key[i] = NsSystem[i]
    /\ key[Len(NsSystem) + 1] = "/"

\* the keys a queue holds, waiting or in reconcile
KeysOf(q) ==
    wq[q].dirty \cup wq[q].processing \cup {wq[q].queue[i] : i \in 1..Len(wq[q].queue)}

\* C19: no key of the system namespace is ever on the services or the
\* endpoints queue, whichever event delivered the object and whichever worker
\* enqueues, and no configuration file is ever written for a service of the
\* system namespace.
C19_SystemNamespaceDropped ==
    /\ \A q \in {"services", "endpoints"} : \A key \in KeysOf(q) : ~IsSystemKey(key)
    /\ \A key \in SystemKeys : IsSystemKey(key) => ~Has(files, ConfigFileOf(key))

\* the system namespace holds an admissible service with endpoints, an ordinary
\* service has been rendered, and the queues have drained
C19_Witness ==
    /\ Quiescent
    /\ Has(servicesStore, keyFunc(MkService(NsSystem, NameS, ClassAnn)))
    /\ Has(endpointStore, keyFunc(MkService(NsSystem, NameS, ClassAnn)))
    /\ ValidateServiceObject(servicesStore[keyFunc(MkService(NsSystem, NameS, ClassAnn))])
    /\ Has(files, ConfigFileOf(keyFunc(MkService(NsA, NameS, ClassAnn))))

\* the fields of a node the controller acts on
NodeCompared(n) == << n.Annotations, n.Labels, n.Unschedulable, n.Addresses >>

\* an UPDATE event: an event that neither adds an object to nor removes one
\* from the cache
UpdateDelivered ==
    /\ nevents' = nevents + 1
    /\ DOMAIN servicesStore' = DOMAIN servicesStore
    /\ DOMAIN endpointStore' = DOMAIN endpointStore
    /\ DOMAIN nodesStore' = DOMAIN nodesStore

\* the event left the queue, the configuration files and nginx as they were
Suppressed(q) ==
    /\ wq'[q] = wq[q]
    /\ UNCHANGED << files, proxy, nodes, serviceUpstreamNodes, serviceUpstreamTarget >>

\* C20: an UPDATE event whose post-image equals its pre-image (for a node:
\* equals it in annotations, labels, spec and addresses, whatever its
\* conditions are) enqueues nothing and changes no configuration; a key is
\* enqueued by an UPDATE only when the post-image differs.
C20_UpdateSuppression ==
    [][UpdateDelivered =>
          /\ (servicesStore' = servicesStore => Suppressed("services"))
          /\ (endpointStore' = endpointStore => Suppressed("endpoints"))
          /\ ((\A k \in DOMAIN nodesStore :
                  NodeCompared(nodesStore'[k]) = NodeCompared(nodesStore[k]))
                  => Suppressed("nodes"))]_vars

\* the node was added and then updated in its conditions only; the update
\* was dropped and the one reconcile of the ADD has put it in the inventory
C20_Witness ==
    /\ nevents = 2
    /\ Has(nodesStore, keyFunc(BaseNode))
    /\ nodesStore[keyFunc(BaseNode)] = [BaseNode EXCEPT !.Conditions = 1]
    /\ Quiescent
    /\ Has(nodes, keyFunc(BaseNode))

\* the services that have a configuration file
ServicesWithFile == {key \in NamedKeys : Has(files, ConfigFileOf(key))}

\* C21: with service-name set, at most one service, the identified one, has
\* a configuration file; its name is the flag's value and no service of
\* another name has a file, with or without the class annotation.
C21_OnlyNamedService ==
    /\ Cardinality(ServicesWithFile) <= 1
    /\ \A key \in ServicesWithFile : \E obj \in NamedServices :
           keyFunc(obj) = key /\ obj.Name = lbexService

\* the variable the documentation gives for each flag with environment support
DocumentedVariable ==
    (FlagServiceName :> EnvServiceName) @@ (FlagHealthCheck :> EnvHealthCheck)
    @@ (FlagHealthPort :> EnvHealthPort)

\* the value a text stands for, for the texts a flag's type accepts
MeaningOf(f, text) ==
    CASE f = FlagServiceName -> text
      [] f = FlagHealthCheck -> (text = "true")
      [] f = FlagHealthPort -> (IF text = "8080" THEN 8080 ELSE 9000)

\* the flag's type accepts the text as a value from the environment
AcceptedFromEnv(f, text) ==
    CASE f = FlagServiceName -> TRUE
      [] f = FlagHealthCheck -> text \in {"true", "false"}
      [] f = FlagHealthPort -> text \in {"8080", "9000"}

FailedReconcile(q) ==
    /\ wpc[q] = "sync"
    /\ wpc'[q] = "get"
    /\ lastOp'.q = q
    /\ lastOp'.err = "error"

\* the key is among the keys the worker's next Get can return
Queued(w, key) == \E i \in 1..Len(w.queue) : w.queue[i] = key

\* C23: when the sync function returns an error for a key, the key stays
\* registered with the queue although it is added before Done (it is not lost),
\* and it is held back by the backoff: it is not handed to the worker's next
\* Get at once.
C23_RequeueWithBackoff ==
    [][\A q \in Queues :
          FailedReconcile(q) =>
              /\ wkey[q] \in wq'[q].dirty
              /\ ~Queued(wq'[q], wkey[q])]_vars

\* the endpoints worker ends a reconcile
EndpointsReconciled == wpc["endpoints"] = "sync" /\ wpc'["endpoints"] = "get"

\* C24: a reconcile of an endpoints key whose service is admissible leaves that
\* service's key enqueued on the services queue, also when the endpoints
\* record has no addresses; whatever the reconcile enqueues is the key of a
\* service in the cache, and it writes no file and changes no upstream state.
C24_EndpointsTriggerService ==
    [][EndpointsReconciled =>
          /\ (/\ Has(servicesStore, wkey["endpoints"])
              /\ ValidateServiceObject(servicesStore[wkey["endpoints"]]))
                 => wkey["endpoints"] \in wq'["services"].dirty
          /\ wq'["services"].dirty \ wq["services"].dirty \subseteq DOMAIN servicesStore
          /\ UNCHANGED << files, proxy, serviceUpstreamNodes, serviceUpstreamTarget >>]_vars

\* the services worker ends a reconcile in which AddOrUpdateService ran
ServiceRendered ==
    /\ wpc["services"] = "sync"
    /\ wpc'["services"] = "get"
    /\ lastOp'.q = "services"
    /\ lastOp'.op = "update"

\* the Targets syncServices hands to AddOrUpdateService in this reconcile
TargetsRendered(key) == TargetsOf(getServiceNetworkTopo(servicesStore, endpointStore, key))

\* the nodes whose address this reconcile renders as a member
NodesRendered(key) ==
    LET svc == servicesStore[key]
        type == ValidateUpstreamType(GetOptionalStringAnnotation(LBEXUpstreamType, svc).val)
        set == ValidateNodeSet(GetOptionalStringAnnotation(LBEXNodeSet, svc).val)
        targets == TargetsRendered(key)
    IN  IF type # HostNode THEN {}
        ELSE IF set = Host
             THEN {targets[i].NodeName : i \in 1..Len(targets)} \cap DOMAIN nodes
             ELSE DOMAIN nodes

\* the entries of a cross-index for a key, none when the key has no entry
EntriesOf(index, key) == IF Has(index, key) THEN index[key] ELSE << >>

\* C25: after each AddOrUpdateService for a key the target index of the key
\* holds exactly the Targets of this reconcile and the node index of the key
\* exactly the nodes this reconcile rendered; nothing of an earlier reconcile
\* of the key is left in either.
C25_IndexRecomputed ==
    [][ServiceRendered =>
          /\ EntriesOf(serviceUpstreamTarget', wkey["services"]) = TargetsRendered(wkey["services"])
          /\ {EntriesOf(serviceUpstreamNodes', wkey["services"])[i].Name :
                 i \in 1..Len(EntriesOf(serviceUpstreamNodes', wkey["services"]))}
             = NodesRendered(wkey["services"])]_vars

\* the next statement of the goroutine reads or writes the node inventory or
\* a cross-index, writes or removes a file, or runs an nginx command
AtSharedState(g) == cpc[g] \in {"lookup", "locked", "lockedDelete", "reload", "tested"}

\* C26: a goroutine reads or writes the node inventory, the node index or the
\* target index, writes or removes a configuration file, or requests a
\* reload only while it holds the configurator's lock, and at most one
\* goroutine is at such a statement.
C26_SharedStateUnderLock ==
    /\ \A g \in Goroutines : AtSharedState(g) => lock = g
    /\ Cardinality({g \in Goroutines : AtSharedState(g)}) <= 1

\* the nodes worker ends a reconcile of a node that is in the cache and unschedulable
InactiveNodeReconciled ==
    /\ wpc["nodes"] = "sync"
    /\ wpc'["nodes"] = "get"
    /\ ~wskip["nodes"]
    /\ Has(nodesStore, wkey["nodes"])
    /\ ~IsNodeScheduleable(nodesStore[wkey["nodes"]])

\* C27: AddOrUpdateNode for an inactive node leaves the node out of the
\* inventory whether or not the inventory knew the node, and reports the
\* services whose upstream names the node; the inventory never holds an
\* inactive node.
C27_InactiveNodeRemoved ==
    /\ [](\A n \in DOMAIN nodes : nodes[n].Active)
    /\ [][InactiveNodeReconciled =>
             /\ ~Has(nodes', wkey["nodes"])
             /\ lastOp'.affected = ServicesOfNode(serviceUpstreamNodes, wkey["nodes"])]_vars

\* the queue has no key waiting and its worker holds none
Drained(q) == wq[q].queue = << >> /\ wpc[q] = "get"

\* C28: every queue has one worker, which holds at most one key, so two
\* reconciles of a key never overlap; a key waits at most once; a key marked
\* for a reconcile is waiting or in reconcile; and whatever events arrive
\* while a reconcile of the key has read the cache and not yet ended, once the
\* nodes queue is drained the inventory is what the last event of each node
\* produced: a deleted node is absent and a schedulable node is present with
\* the address of its last event.
C28_KeyOrder ==
    /\ \A q \in Queues :
          /\ wq[q].processing = (IF wpc[q] = "sync" THEN {wkey[q]} ELSE {})
          /\ \A i, j \in 1..Len(wq[q].queue) : wq[q].queue[i] = wq[q].queue[j] => i = j
          /\ \A key \in wq[q].dirty : Queued(wq[q], key) \/ key \in wq[q].processing
    /\ Drained("nodes") =>
          \A key \in NodeKeys :
              /\ ~Has(nodesStore, key) => ~Has(nodes, key)
              /\ (Has(nodesStore, key) /\ IsNodeScheduleable(nodesStore[key])) =>
                     /\ Has(nodes, key)
                     /\ nodes[key].Active
                     /\ nodes[key].InternalIP = nodesStore[key].Addresses[1].Address

\* the address of a node changed after a reconcile had read the old one, and
\* the reconcile that followed the event has replaced the entry
C28_Witness ==
    /\ Drained("nodes")
    /\ nevents = 2
    /\ lastOp.q = "nodes"
    /\ lastOp.op = "upsert"
    /\ lastOp.prev # << >>
    /\ lastOp.prev[1].InternalIP = "10.0.0.11"
    /\ Has(nodes, NodeN1)
    /\ nodes[NodeN1].InternalIP = "10.0.0.12"
    /\ nodesStore[NodeN1].Addresses[1].Address = "10.0.0.12"

\* the member addresses the inventory entry of a node can contribute
MemberAddressesOf(node) ==
    {ip \o ":" \o Itoa(PortP.NodePort) : ip \in {node.InternalIP, node.ExternalIP} \ {""}}

\* the nodes of the inventory with a member address in the file of the key
NodesInFile(fs, key) ==
    IF ~Has(fs, ConfigFileOf(key)) THEN {}
    ELSE {name \in DOMAIN nodes :
             MemberAddresses(fs[ConfigFileOf(key)]) \cap MemberAddressesOf(nodes[name]) # {}}

\* the service of the key has upstream-type node
NodeTypeService(key) ==
    /\ Has(servicesStore, key)
    /\ ValidateUpstreamType(
           GetOptionalStringAnnotation(LBEXUpstreamType, servicesStore[key]).val) = HostNode

\* C29: after each AddOrUpdateService for a service with upstream-type node,
\* every node of the inventory whose address is a member of an upstream group
\* in the file written for the service has an entry in the node index of the
\* service's key.
C29_NodeIndexCoversMembers ==
    [][(ServiceRendered /\ NodeTypeService(wkey["services"])) =>
          NodesInFile(files', wkey["services"]) \subseteq
              {EntriesOf(serviceUpstreamNodes', wkey["services"])[i].Name :
                  i \in 1..Len(EntriesOf(serviceUpstreamNodes', wkey["services"]))}]_vars

\* the last reconcile added the node to the inventory, as a schedulable node,
\* and nothing is waiting or in reconcile since
LateNodeSettled ==
    /\ Quiescent
    /\ lastOp.q = "nodes"
    /\ lastOp.op = "upsert"
    /\ lastOp.prev = << >>
    /\ Has(nodes, lastOp.key)
    /\ nodes[lastOp.key].Active

\* C30: when a schedulable node has been added to the inventory after the
\* last reconcile of a service with upstream-type node and the queues have
\* drained, the file of every such service of which the node is to be a
\* member (the node hosts one of its targets for node-set host, any node for
\* node-set all) lists a member address of the node.
C30_LateNodeJoins ==
    LateNodeSettled =>
        \A key \in DOMAIN servicesStore :
            (/\ NodeTypeService(key)
             /\ Has(files, ConfigFileOf(key))
             /\ lastOp.key \in NodesRendered(key))
            => MemberAddresses(files[ConfigFileOf(key)]) \cap MemberAddressesOf(nodes[lastOp.key]) # {}

\* the Targets the resolver returned, over all service ports
ResolvedTargets == TargetsOf(pout[1].topo)

\* the positions (subset, address) of the endpoints object whose address names no node
NodelessAddresses ==
    {<< i, k >> \in (1..MaxSubsets + 1) \X (1..2) :
        /\ i <= Len(pin.endpoints.Subsets)
        /\ k <= Len(pin.endpoints.Subsets[i].Addresses)
        /\ pin.endpoints.Subsets[i].Addresses[k].NodeName = NilNodeName}

\* subset i has a port that stands for the target port of the service port
SubsetMatches(i, servicePort) ==
    \E j \in 1..Len(pin.endpoints.Subsets[i].Ports) :
        targetPortOf(servicePort, pin.endpoints.Subsets[i].Ports[j]) # 0

\* C31: the resolver never panics, and an address without a node-name in a
\* subset that matches a service port is emitted as a Target whose node-name
\* is the empty string.
C31_NodelessAddressEmitted ==
    pout # << >> =>
        /\ ~pout[1].panic
        /\ \A pos \in NodelessAddresses :
              \A n \in 1..Len(pin.service.Ports) :
                  SubsetMatches(pos[1], pin.service.Ports[n]) =>
                      \E t \in 1..Len(ResolvedTargets) :
                          /\ ResolvedTargets[t].ServicePort = pin.service.Ports[n].Port
                          /\ ResolvedTargets[t].PodIP =
                                 pin.endpoints.Subsets[pos[1]].Addresses[pos[2]].IP
                          /\ ResolvedTargets[t].NodeName = << >>

\* the addresses of the endpoints object
ResolveAddresses ==
    UNION {{pin.endpoints.Subsets[i].Addresses[k] :
                k \in 1..Len(pin.endpoints.Subsets[i].Addresses)} :
           i \in 1..Len(pin.endpoints.Subsets)}

\* the Targets of a service port that carry the IP and the node-name of address a
TargetsOfAddress(servicePort, a) ==
    {t \in 1..Len(ResolvedTargets) :
        /\ ResolvedTargets[t].ServicePort = servicePort.Port
        /\ ResolvedTargets[t].PodIP = a.IP
        /\ ResolvedTargets[t].NodeName = a.NodeName}

\* the places where address a stands in a subset that matches the service port
MatchingPlaces(servicePort, a) ==
    {<< i, k >> \in (1..MaxSubsets + 1) \X (1..2) :
        /\ i <= Len(pin.endpoints.Subsets)
        /\ k <= Len(pin.endpoints.Subsets[i].Addresses)
        /\ pin.endpoints.Subsets[i].Addresses[k] = a
        /\ SubsetMatches(i, servicePort)}

\* C32: for every service port the resolver returns exactly one Target for
\* each address of each subset that has a port matching the service port's
\* target port, with the node-name of the address, and no Target for the
\* addresses of the other subsets.
C32_OneTargetPerAddress ==
    (pout # << >> /\ ~pout[1].panic) =>
        \A n \in 1..Len(pin.service.Ports) : \A a \in ResolveAddresses :
            Cardinality(TargetsOfAddress(pin.service.Ports[n], a))
                = Cardinality(MatchingPlaces(pin.service.Ports[n], a))

Reverse(s) == [i \in 1..Len(s) |-> s[Len(s) + 1 - i]]

\* the endpoints object with the same subsets, addresses and ports stored in
\* another order
Reorderings(endpoints) ==
    { [endpoints EXCEPT !.Subsets = Reverse(endpoints.Subsets)],
      [endpoints EXCEPT !.Subsets = [i \in 1..Len(endpoints.Subsets) |->
          [endpoints.Subsets[i] EXCEPT !.Addresses = Reverse(@)]]],
      [endpoints EXCEPT !.Subsets = [i \in 1..Len(endpoints.Subsets) |->
          [endpoints.Subsets[i] EXCEPT !.Ports = Reverse(@)]]] }

\* C38: the list the resolver returns does not depend on the order in which
\* the endpoints object stores its subsets, the addresses of a subset and the
\* ports of a subset: the same contents in another order resolve to the same
\* ordered list.
C38_ResolverOrderIndependent ==
    (pout # << >> /\ ~pout[1].panic) =>
        \A other \in Reorderings(pin.endpoints) :
            ResolveOutcome(pin.service, other).topo = pout[1].topo

\* C33: every upstream group in a configuration file has at least one member.
C33_NoEmptyUpstreamGroup ==
    \A f \in DOMAIN files :
        \A i \in 1..Len(files[f].Upstreams) : files[f].Upstreams[i].UpstreamServers # << >>

\* C34: once the worker of a queue has closed workerDone it stays exited: the
\* worker function is not called again, and no second close, which would
\* end the process with a panic, occurs.
C34_WorkerDoneClosedOnce ==
    [][\A q \in Queues : workerDone[q] = "closed" => (wpc'[q] = "exited" /\ ~crashed')]_vars

\* the services worker ends a reconcile that called AddOrUpdateService or
\* DeleteConfiguration for a service whose own file the validator accepts
AcceptableServiceReconciled ==
    /\ wpc["services"] = "sync"
    /\ wpc'["services"] = "get"
    /\ lastOp'.q = "services"
    /\ lastOp'.op \in {"update", "delete"}
    /\ ConfigFileOf(wkey["services"]) \notin rejected

\* C35: an AddOrUpdateService or DeleteConfiguration for a service whose own
\* file is acceptable reaches the reload signal, also after a file written
\* for another service has failed validation.
C35_RejectedFileDoesNotBlock ==
    [][AcceptableServiceReconciled =>
          \E i \in 1..Len(cmds') : cmds'[i].cmd = NginxReload]_vars

\* the member address the upstream type prescribes for Target j
DirectMemberAddress(j) ==
    IF UpstreamTypeOf(pin.service) = Pod
    THEN pout[1].targets[j].PodIP \o ":" \o Itoa(pout[1].targets[j].PodPort)
    ELSE pin.service.ClusterIP \o ":" \o Itoa(pout[1].targets[j].ServicePort)

\* C36: for upstream-type cluster-ip and pod every upstream group has one
\* member per Target of its port, in the order of the Targets, with address
\* serviceClusterIP:servicePort for cluster-ip and podIP:podPort for pod; no
\* member carries another address.
C36_DirectMembers ==
    (/\ pout # << >>
     /\ pout[1].rendered
     /\ UpstreamTypeOf(pin.service) \in {Pod, ClusterIP})
    => \A i \in 1..Len(pout[1].cfg.Upstreams) :
          LET up == pout[1].cfg.Upstreams[i]
          IN  /\ Len(up.UpstreamServers) = Cardinality(TargetsOfGroup(up))
              /\ \A k \in 1..Len(up.UpstreamServers) :
                    \E j \in TargetsOfGroup(up) :
                        /\ Cardinality({t \in TargetsOfGroup(up) : t <= j}) = k
                        /\ up.UpstreamServers[k].Address = DirectMemberAddress(j)

\* a pod service rendered with two Targets in one upstream group
C36_Witness ==
    /\ pout # << >>
    /\ pout[1].rendered
    /\ UpstreamTypeOf(pin.service) = Pod
    /\ \E i \in 1..Len(pout[1].cfg.Upstreams) :
          /\ Len(pout[1].cfg.Upstreams[i].UpstreamServers) = 2
          /\ pout[1].cfg.Upstreams[i].UpstreamServers[1].Address = "10.1.1.5:8080"
          /\ pout[1].cfg.Upstreams[i].UpstreamServers[2].Address = "10.1.2.5:8080"

\* the algorithm the service asks for: the annotation when it names one of
\* the three supported algorithms, round-robin otherwise
AlgorithmAsked ==
    LET a == GetOptionalStringAnnotation(LBEXAlgorithmKey, pin.service)
    IN  IF a.ok /\ a.val \in {"round_robin", "least_conn", "least_time"}
        THEN a.val ELSE "round_robin"

\* the method the service asks for: the annotation when it names a supported
\* method, connect otherwise
MethodAsked ==
    LET m == GetOptionalStringAnnotation(LBEXMethodKey, pin.service)
    IN  IF m.ok /\ m.val \in {"connect", "first_byte", "last_byte", "connect inflight",
                              "first_byte inflight", "last_byte inflight"}
        THEN m.val ELSE "connect"

\* C37: every upstream group carries an algorithm only when the service asks
\* for a supported algorithm other than round-robin, an unsupported or missing
\* annotation value counting as round-robin, and a least-time method only when
\* the algorithm is least-time, where it is the validated method annotation.
C37_AlgorithmEmitted ==
    (pout # << >> /\ pout[1].rendered) =>
        \A i \in 1..Len(pout[1].cfg.Upstreams) :
            /\ pout[1].cfg.Upstreams[i].Algorithm =
                   (IF AlgorithmAsked = "round_robin" THEN "" ELSE AlgorithmAsked)
            /\ pout[1].cfg.Upstreams[i].LeastTimeMethod =
                   (IF AlgorithmAsked = "least_time" THEN MethodAsked ELSE "")

\* a service with an unsupported algorithm value was rendered without an
\* algorithm, although it names a method
C37_Witness ==
    /\ pout # << >>
    /\ pout[1].rendered
    /\ GetOptionalStringAnnotation(LBEXAlgorithmKey, pin.service).val = "random"
    /\ GetOptionalStringAnnotation(LBEXMethodKey, pin.service).val = "last_byte"
    /\ pout[1].cfg.Upstreams # << >>
    /\ pout[1].cfg.Upstreams[1].Algorithm = ""
    /\ pout[1].cfg.Upstreams[1].LeastTimeMethod = ""

\* the service carries the annotation that is asked for
AnnotationPresent == pin.name \in DOMAIN pin.service.Annotations

\* C40: each of the three optional readers returns a flag that is true
\* exactly when the service carries the annotation, and the zero value of its
\* type when the service does not carry it; the string reader returns the
\* value of an annotation that is present.
C40_OptionalPresentFlag ==
    pout # << >> =>
        /\ pout[1].string.ok <=> AnnotationPresent
        /\ pout[1].bool.ok <=> AnnotationPresent
        /\ pout[1].int.ok <=> AnnotationPresent
        /\ ~AnnotationPresent =>
              (pout[1].string.val = "" /\ pout[1].bool.val = FALSE /\ pout[1].int.val = 0)
        /\ AnnotationPresent => pout[1].string.val = pin.service.Annotations[pin.name]

\* C39: in local mode the driver starts no process, leaves the configuration
\* directory and the main configuration file alone and runs no validate or
\* reload command, whatever the reconciles do: from construction on there is
\* no file, no command has been run and the proxy has loaded nothing.
C39_LocalModeInert ==
    cfgType = LocalCfg => (files = EmptyMap /\ cmds = << >> /\ proxy = EmptyMap)

\* in local mode a reconcile removed a service's configuration and called Reload
C39_Witness ==
    /\ cfgType = LocalCfg
    /\ lastOp.q = "services"
    /\ lastOp.op = "delete"
    /\ reloads = 1

====
